---- MODULE Spec2Model ----
(***************************************************************************)
(* ResQ-Connect: the localStorage-backed mock data service                 *)
(* (src/src/services/mock-data-service.ts): authService, disasterService   *)
(* and dangerZoneService over the keys resq_user, resq_session,            *)
(* resq_disasters and resq_danger_zones, and the hazard summary heuristic  *)
(* (src/src/services/hazard-summary.ts).                                   *)
(*                                                                         *)
(* Every async function is cut at its awaits: code between two awaits is   *)
(* one atomic step, as on a single JavaScript event loop, and any other    *)
(* call's step may run between two steps of a call.  The code before the   *)
(* first await of a function only logs and starts a timer, so a call       *)
(* appears in the model with its first step after that timer.              *)
(*                                                                         *)
(* Units: time is an abstract millisecond counter (Date.now()),            *)
(* coordinates are integers in 1e-4 degree, distances are metres.          *)
(***************************************************************************)
EXTENDS Integers, Sequences, FiniteSets, TLC

VARIABLES
    now,        \* the wall clock, Date.now()
    session,    \* localStorage['resq_session']: NoSession or the session's user id
    profile,    \* localStorage['resq_user']: the stored Profile
    disasters,  \* localStorage['resq_disasters']: the stored DisasterReport[]
    zones,      \* localStorage['resq_danger_zones']: the stored DangerZone[]
    failing,    \* the keys on which localStorage.setItem throws (quota exceeded)
    corrupt,    \* the keys whose stored text JSON.parse rejects
    calls,      \* the async calls in flight, one record per call slot
    lastRet,    \* what the most recently completed call returned or threw
    returned,   \* history: the reports returned by reportDisaster, oldest first
    openaiClient,     \* the OpenAIClient: its apiKey and isTestMode
    isEnabled,        \* BlockchainVerificationService.isEnabled
    verifications,    \* the verifications begun, oldest first, with their results
    authContext,      \* the state of the AuthProvider and its calls in flight
    disasterContext   \* the state of the DisasterProvider and its calls in flight

vars == <<now, session, profile, disasters, zones, failing, corrupt, calls,
         lastRet, returned, openaiClient, isEnabled, verifications,
         authContext, disasterContext>>

----------------------------------------------------------------------------
\* Bounds of the model

\* number of call slots: how many async calls may be in flight together
MaxCalls == 2
\* number of reportDisaster calls over a run (the seeded list holds 3 more)
MaxReports == 2
\* the clock stops ticking after Clock0 + MaxTicks
MaxTicks == 1
\* length of the report lists given to generateHazardSummary
MaxSummaryReports == 2
\* number of verifications begun over a run
MaxVerifications == 2
\* length of the longer lists given to it, which are told apart by their
\* counts only
MaxLongReports == 5

Calls == 1..MaxCalls

----------------------------------------------------------------------------
\* Values

\* module load time; the seeded created_at values lie 2, 4 and 6 units before
Clock0 == 10
MaxClock == Clock0 + MaxTicks

NoSession == <<"none", 0>>
NoTime == 0
Nobody == <<"none", 0>>
Admin == <<"admin", 0>>
DemoUserId == <<"demo-user", 123>>

Statuses == {"open", "verified", "resolved", "false_alarm"}

STORAGE_KEYS ==
    [USER |-> "resq_user", SESSION |-> "resq_session",
     DISASTERS |-> "resq_disasters", DANGER_ZONES |-> "resq_danger_zones"]

Keys == {STORAGE_KEYS[k] : k \in DOMAIN STORAGE_KEYS}

\* an optional string field of a Profile that is absent
NoName == ""

\* DEMO_USER, reduced to the fields the service reads or writes
DEMO_USER ==
    [id |-> DemoUserId, username |-> "demo_user", full_name |-> "Demo User",
     created_at |-> Clock0, updated_at |-> NoTime]

\* getFromStorage(USER, null) when it yields null
NoProfile ==
    [id |-> Nobody, username |-> NoName, full_name |-> NoName,
     created_at |-> NoTime, updated_at |-> NoTime]

\* the record ids and the payloads given to the verification stub
RecordIds == {"r1", "r2"}
Payloads == {[severity |-> "low"], [severity |-> "high"]}

\* no API key: null
NoKey == "none"

\* the clients constructed: with or without a key, in test mode or not
\* (createTestClient is new OpenAIClient('test-key', true))
OpenAIClients == [apiKey : {NoKey, "test-key"}, isTestMode : BOOLEAN]

\* a query, held as the set of the phrases getFallbackResponse looks for
\* that its lower-cased text includes
Queries ==
    {[includes |-> {}], [includes |-> {"unsafe"}], [includes |-> {"help"}],
     [includes |-> {"walking alone", "emergency"}]}

\* the emergency types of generateEmergencyMessage, and one that is none of
\* them
EmergencyTypes == {"medical", "safety", "weather", "transport", "other"}

\* what the fetch of callOpenAI meets: the request is rejected; the status
\* is not OK; the body is not JSON; the body has no choices; the first
\* choice has no content; the first choice has content
ApiOutcomes ==
    {"network_error", "not_ok", "bad_json", "no_choices", "no_content",
     "content"}

\* no checkAuthState in progress
NoCheck == [user |-> NoSession, initial |-> FALSE, active |-> FALSE]

\* the AuthProvider before its first effect: useState(null) three times and
\* useState(true) for loading.  mounted: the effect has run; check: the
\* getCurrentUser() the effect or the interval awaits; pending: the signIn,
\* signUp and signOut calls of the context awaiting the auth service
AuthContext0 ==
    [session |-> NoSession, user |-> NoSession, profile |-> NoProfile,
     loading |-> TRUE, mounted |-> FALSE, check |-> NoCheck, pending |-> {}]

\* currentLocation when it is null
NoLocation == << >>

\* dangerZoneAlert when it is null
NoZone == << >>

\* error when it is null
NoError == ""

\* the DisasterProvider before its first effect.  inFlight: the calls of
\* reportDisaster, refreshDisasterReports and refreshDangerZones awaiting
\* their service, oldest first; effectUser: the user the [user] effect last
\* ran for
DisasterContext0 ==
    [currentLocation |-> NoLocation, disasterReports |-> << >>,
     dangerZones |-> << >>, loading |-> FALSE, error |-> NoError,
     isInDangerZone |-> FALSE, dangerZoneAlert |-> NoZone,
     inFlight |-> << >>, effectUser |-> NoSession]

\* MOCK_DISASTER_REPORTS, newest first
MOCK_DISASTER_REPORTS ==
    << [id |-> <<"disaster", 1>>, reporter_id |-> DemoUserId, status |-> "open",
        latitude |-> 261445, longitude |-> 917362,
        created_at |-> Clock0 - 2, verified_at |-> NoTime, verified_by |-> Nobody],
       [id |-> <<"disaster", 2>>, reporter_id |-> DemoUserId, status |-> "verified",
        latitude |-> 262000, longitude |-> 918000,
        created_at |-> Clock0 - 4, verified_at |-> Clock0 - 3, verified_by |-> DemoUserId],
       [id |-> <<"disaster", 3>>, reporter_id |-> DemoUserId, status |-> "open",
        latitude |-> 261000, longitude |-> 917000,
        created_at |-> Clock0 - 6, verified_at |-> NoTime, verified_by |-> Nobody] >>

\* MOCK_DANGER_ZONES: the polygon is the ring of [lng, lat] vertices, the
\* first vertex repeated at the end
MOCK_DANGER_ZONES ==
    << [id |-> <<"zone", 1>>, is_active |-> TRUE,
        polygon |-> << <<917000, 261000>>, <<918000, 261000>>, <<918000, 262000>>,
                       <<917000, 262000>>, <<917000, 261000>> >>],
       [id |-> <<"zone", 2>>, is_active |-> TRUE,
        polygon |-> << <<917500, 261500>>, <<918500, 261500>>, <<918500, 262500>>,
                       <<917500, 262500>>, <<917500, 261500>> >>] >>

\* the seeded zones with either value of is_active
ZonePool ==
    {[MOCK_DANGER_ZONES[i] EXCEPT !.is_active = b] :
        i \in 1..Len(MOCK_DANGER_ZONES), b \in BOOLEAN}

\* the zone lists storage may hold: no zone, one zone, or both in either
\* order
ZoneLists ==
    {<< >>} \cup {<<z>> : z \in ZonePool}
            \cup {yz \in ZonePool \X ZonePool : yz[1].id # yz[2].id}

\* the places asked of checkLocationInDangerZone: near the centre of zone-1
\* only, near that of zone-2 only, near both, near none
ZoneQueryPoints ==
    { <<261445, 917362>>, <<262000, 918000>>, <<261650, 917650>>,
      <<261000, 917000>> }

\* the places of the model: those of the seeded reports
Points == { <<261445, 917362>>, <<262000, 918000>>, <<261000, 917000>> }

\* the pairs of places calculateDistance is tried on: a grid around the
\* seeded places and one around latitude 0, longitude 0, each 0.1 degree wide
DistancePairs ==
    LET seeded == {261000, 261445, 262000} \X {917000, 917362, 918000}
        origin == {-500, 0, 500} \X {-500, 0, 500}
    IN (seeded \X seeded) \cup (origin \X origin)

\* the places callers query
QueryPoints == { <<261445, 917362>>, <<262000, 918000>> }

\* the partial reports callers pass (Omit<DisasterReport, id | created_at | reporter_id>)
PartialReports ==
    { [status |-> "open", latitude |-> 261445, longitude |-> 917362],
      [status |-> "resolved", latitude |-> 262000, longitude |-> 918000] }

\* the usernames passed to signUp
Usernames == {"asha"}

\* the updates passed to updateProfile (Partial<Profile>)
ProfileUpdates ==
    { [full_name |-> "Asha Devi"],
      [username |-> "asha_d", full_name |-> NoName] }

\* the keys on which a write may fail (resq_danger_zones is written at load
\* only)
WrittenKeys ==
    {STORAGE_KEYS.USER, STORAGE_KEYS.SESSION, STORAGE_KEYS.DISASTERS}

Severities == {"low", "medium", "high", "critical"}

\* 24 * 60 * 60 * 1000 ms in the unit of the seeded times, which lie 2, 4 and
\* 6 hours before Clock0
Day == 24

\* the reports given to generateHazardSummary, reduced to the fields the
\* risk is computed from: created two hours before Clock0, or a day before
\* Clock0 less one unit, or a day before Clock0
SummaryReports ==
    [severity : Severities,
     created_at : {Clock0 - 2, Clock0 - Day + 1, Clock0 - Day}]

\* the report lists given to generateHazardSummary
SummaryLists ==
    UNION {[1..n -> SummaryReports] : n \in 0..MaxSummaryReports}

\* the counts of the longer lists: total, critical, high and recent reports
LongCounts ==
    {u \in ((MaxSummaryReports + 1)..MaxLongReports) \X (0..MaxLongReports)
              \X (0..MaxLongReports) \X (0..MaxLongReports) :
        u[2] + u[3] <= u[1] /\ u[4] <= u[1]}

\* the list with these counts: the critical reports first, then the high
\* ones, then medium and low ones in turn; the last `recent` reports were
\* created two hours before Clock0, the others a day before Clock0
LongList(total, critical, high, recent) ==
    [i \in 1..total |->
        [severity |-> IF i <= critical THEN "critical"
                      ELSE IF i <= critical + high THEN "high"
                      ELSE IF i % 2 = 0 THEN "medium" ELSE "low",
         created_at |-> IF i > total - recent THEN Clock0 - 2
                        ELSE Clock0 - Day]]

LongLists == {LongList(u[1], u[2], u[3], u[4]) : u \in LongCounts}

\* limit and offset arguments tried (50 and 0 are the defaults)
Limits == {0, 1, 2, 50}
Offsets == {0, 2, 3, 10}

\* radiusKm arguments tried
Radii == {0, 7, 10}

\* report ids asked of verifyDisasterReport: a seeded one, an absent one and
\* the one of the reports stored at time Clock0
ReportIds == { <<"disaster", 2>>, <<"disaster", 99>>, <<"disaster", Clock0>> }

Min(a, b) == IF a < b THEN a ELSE b
Max(a, b) == IF a > b THEN a ELSE b

----------------------------------------------------------------------------
\* Storage helpers

\* JSON.parse accepts the text stored under the key
parses(key) == key \notin corrupt

\* the read gone wrong: a failed parse is not noticed and the default is
\* never used
getFromStorage_noDefault(present, stored, defaultValue) == stored

\* getFromStorage: the parsed value stored under the key, or the default
\* when localStorage.getItem returns null or JSON.parse throws (present is
\* false in both cases)
getFromStorage(present, stored, defaultValue) ==
    IF present THEN stored ELSE defaultValue

\* setToStorage: the stored value becomes the value written, unless setItem
\* throws, which the catch swallows: the stored value stays
setToStorage(key, old, value) == IF key \in failing THEN old ELSE value

\* the keys whose text a setToStorage(key, ...) replaced
written(key) == IF key \in failing THEN {} ELSE {key}

\* the read of the list gone wrong: the seeded array instead of the stored
\* list
storedDisasters_seeded(stored) == MOCK_DISASTER_REPORTS

\* getFromStorage(DISASTERS, []): the key is seeded at load and never removed
storedDisasters(stored) ==
    getFromStorage(parses(STORAGE_KEYS.DISASTERS), stored, << >>)

\* getFromStorage(DANGER_ZONES, []): seeded at load and never removed
storedZones(stored) ==
    getFromStorage(parses(STORAGE_KEYS.DANGER_ZONES), stored, << >>)

\* getFromStorage(USER, null): seeded at load and never removed
storedProfile(stored) ==
    getFromStorage(parses(STORAGE_KEYS.USER), stored, NoProfile)

\* getCurrentUser: getFromStorage(SESSION, null), then `session?.user || null`
getCurrentUser(sess) ==
    getFromStorage(sess # NoSession /\ parses(STORAGE_KEYS.SESSION),
                   sess, NoSession)

\* the check of the user gone wrong: anybody passes
authenticated_always(user) == TRUE

\* `!user` is false for a user object and true for null
authenticated(user) == user # NoSession

----------------------------------------------------------------------------
\* Geospatial helper

RECURSIVE SqrtSearch(_, _, _)
SqrtSearch(n, lo, hi) ==
    IF lo >= hi THEN lo
    ELSE LET mid == (lo + hi + 1) \div 2
         IN IF mid * mid <= n THEN SqrtSearch(n, mid, hi)
                              ELSE SqrtSearch(n, lo, mid - 1)

\* Math.sqrt, rounded down
Sqrt(n) == SqrtSearch(n, 0, 46340)

\* Math.cos(lat * Math.PI / 180) in units of 1e-4, lat in 1e-4 degree:
\* 1 - x^2/2 + x^4/24 with x in 1e-4 radian
Cos(lat) ==
    LET x  == (lat * 1745) \div 100000
        x2 == (x * x) \div 10000
    IN 10000 - (x2 \div 2) + ((x2 * x2) \div 10000) \div 24

\* the cosine of the first latitude taken for both
calculateDistance_firstCos(lat1, lon1, lat2, lon2) ==
    LET dLat == lat2 - lat1
        dLon == lon2 - lon1
        cc   == (Cos(lat1) * Cos(lat1)) \div 100000
        a    == dLat * dLat * 1000 + cc * dLon * dLon
        c    == Sqrt(a)
    IN (c * 3516) \div 10000

\* calculateDistance in metres for points at most 0.1 degree apart, where
\* Math.sin(d/2) = d/2 and 2*atan2(sqrt(a), sqrt(1-a)) = 2*sqrt(a) to 1e-6:
\*   a (scaled) = dLat^2 + cos(lat1)*cos(lat2)*dLon^2,  R * c = 11.1195 m * sqrt(a)
calculateDistance(lat1, lon1, lat2, lon2) ==
    LET dLat == lat2 - lat1
        dLon == lon2 - lon1
        cc   == (Cos(lat1) * Cos(lat2)) \div 100000
        a    == dLat * dLat * 1000 + cc * dLon * dLon
        c    == Sqrt(a)
    IN (c * 3516) \div 10000

----------------------------------------------------------------------------
\* Array helpers

\* unshift gone wrong: push, the report goes to the end
unshift_push(list, r) == Append(list, r)

\* Array.prototype.unshift
unshift(list, r) == <<r>> \o list

\* slice gone wrong: slice(offset, limit), the end taken as a count of the
\* whole list
slice_toLimit(list, start, end) ==
    LET s == Min(start, Len(list))
        e == Min(end - start, Len(list))
    IN IF s >= e THEN << >> ELSE SubSeq(list, s + 1, e)

\* Array.prototype.slice(start, end) for non-negative start and end
slice(list, start, end) ==
    LET s == Min(start, Len(list))
        e == Min(end, Len(list))
    IN IF s >= e THEN << >> ELSE SubSeq(list, s + 1, e)

\* find gone wrong: findIndex's -1 used as an index, which names the last
\* element
findIndex_orLast(list, id) ==
    IF \E i \in 1..Len(list) : list[i].id = id
    THEN CHOOSE i \in 1..Len(list) :
            /\ list[i].id = id
            /\ \A j \in 1..(i - 1) : list[j].id # id
    ELSE Len(list)

\* Array.prototype.find by id: the index of the first match, 0 when none
findIndex(list, id) ==
    IF \E i \in 1..Len(list) : list[i].id = id
    THEN CHOOSE i \in 1..Len(list) :
            /\ list[i].id = id
            /\ \A j \in 1..(i - 1) : list[j].id # id
    ELSE 0

----------------------------------------------------------------------------
\* disasterService pieces

\* `disaster-${Date.now()}`
newReportId(t) == <<"disaster", t>>

\* the object literal of reportDisaster: id, reporter_id, created_at, ...report
newReport(idTime, user, createdTime, report) ==
    [id |-> newReportId(idTime), reporter_id |-> user, status |-> report.status,
     latitude |-> report.latitude, longitude |-> report.longitude,
     created_at |-> createdTime, verified_at |-> NoTime, verified_by |-> Nobody]

\* the status gone wrong: the flag is ignored
verifiedStatus_always(verified) == "verified"

\* verified ? 'verified' : 'false_alarm'
verifiedStatus(verified) == IF verified THEN "verified" ELSE "false_alarm"

\* the mutation verifyDisasterReport applies to the report it found
verifyMutation(r, verified, t) ==
    [r EXCEPT !.status = verifiedStatus(verified),
              !.verified_at = t,
              !.verified_by = Admin]

\* calculateDistance over the places of the model, computed once
distanceTable ==
    [p \in Points, q \in Points |-> calculateDistance(p[1], p[2], q[1], q[2])]

\* the filter gone wrong: distance < radiusKm
withinRadius_strict(lat, lng, radiusKm, report) ==
    distanceTable[<<lat, lng>>, <<report.latitude, report.longitude>>]
        < radiusKm * 1000

\* the predicate of the filter in getDisasterReportsByLocation
withinRadius(lat, lng, radiusKm, report) ==
    distanceTable[<<lat, lng>>, <<report.latitude, report.longitude>>]
        <= radiusKm * 1000

\* disasters.filter(report => distance <= radiusKm): Array.prototype.filter
\* keeps the elements that pass, in their order
RECURSIVE filterWithinRadius(_, _, _, _)
filterWithinRadius(list, lat, lng, radiusKm) ==
    IF list = << >> THEN << >>
    ELSE IF withinRadius(lat, lng, radiusKm, Head(list))
         THEN <<Head(list)>> \o filterWithinRadius(Tail(list), lat, lng, radiusKm)
         ELSE filterWithinRadius(Tail(list), lat, lng, radiusKm)

\* the body of getDisasterReportsByLocation: filter, then slice(0, limit)
nearbyDisasters(list, lat, lng, radiusKm, limit) ==
    slice(filterWithinRadius(list, lat, lng, radiusKm), 0, limit)

\* the body of getDisasterReports: disasters.slice(offset, offset + limit)
pageOfDisasters(list, limit, offset) == slice(list, offset, offset + limit)

----------------------------------------------------------------------------
\* dangerZoneService pieces

RECURSIVE sumOf(_, _)
\* coords.reduce((sum, coord) => sum + coord[k], 0)
sumOf(coords, k) ==
    IF coords = << >> THEN 0 ELSE Head(coords)[k] + sumOf(Tail(coords), k)

\* getPolygonCenter for a polygon text that parses: the mean of the ring's
\* vertices, the repeated first vertex counted twice; coord[1] is the
\* latitude and coord[0] the longitude
getPolygonCenter(polygon) ==
    [lat |-> sumOf(polygon, 2) \div Len(polygon),
     lng |-> sumOf(polygon, 1) \div Len(polygon)]

\* the predicate of zones.some(...): distance < 5 (km)
nearZone(zone, lat, lng) ==
    LET zoneCenter == getPolygonCenter(zone.polygon)
    IN calculateDistance(lat, lng, zoneCenter.lat, zoneCenter.lng) < 5 * 1000

\* the body of checkLocationInDangerZone:
\* inDangerZone ? zones.slice(0, 1) : []
zonesAtLocation(list, lat, lng) ==
    LET inDangerZone == \E i \in 1..Len(list) : nearZone(list[i], lat, lng)
    IN IF inDangerZone THEN slice(list, 0, 1) ELSE << >>

----------------------------------------------------------------------------
\* JavaScript numbers: IEEE 754 binary64, round to nearest, ties to even.
\* A number is NaN, Infinity or m * 2^e, with m a natural number of at most
\* 53 bits held as its sequence of bits, most significant first; m is odd or
\* zero (then e = 0), so equal numbers are equal records.  Only numbers >= 0
\* occur, all far from the subnormal range and from overflow.

\* bits of the significand
Precision == 53

NaN == [kind |-> "nan", m |-> << >>, e |-> 0]
Infinity == [kind |-> "inf", m |-> << >>, e |-> 0]

RECURSIVE ToBits(_)
\* the bits of a natural number
ToBits(n) == IF n = 0 THEN << >> ELSE ToBits(n \div 2) \o <<n % 2>>

\* without leading zeros
Strip(x) ==
    IF \A i \in 1..Len(x) : x[i] = 0 THEN << >>
    ELSE LET k == CHOOSE i \in 1..Len(x) :
                     x[i] = 1 /\ \A j \in 1..(i - 1) : x[j] = 0
         IN SubSeq(x, k, Len(x))

\* with leading zeros up to length n
Pad(x, n) ==
    [i \in 1..n |-> IF i <= n - Len(x) THEN 0 ELSE x[i - (n - Len(x))]]

\* times 2^k
ShiftLeft(x, k) == x \o [i \in 1..k |-> 0]

RECURSIVE AddRange(_, _, _, _, _)
\* the bits lo..hi of x + y and the carry out of them, given the carry into
\* them; the range is halved, the right half first
AddRange(x, y, lo, hi, carry) ==
    IF lo = hi
    THEN LET t == x[lo] + y[lo] + carry
         IN [s |-> <<t % 2>>, c |-> t \div 2]
    ELSE LET mid == (lo + hi) \div 2
             right == AddRange(x, y, mid + 1, hi, carry)
             left == IF right.c = 0 THEN AddRange(x, y, lo, mid, 0)
                                    ELSE AddRange(x, y, lo, mid, 1)
         IN [s |-> left.s \o right.s, c |-> left.c]

\* the sum of two naturals
AddBits(x, y) ==
    LET n == Max(Len(x), Len(y))
    IN IF n = 0 THEN << >>
       ELSE LET sum == AddRange(Pad(x, n), Pad(y, n), 1, n, 0)
            IN IF sum.c = 1 THEN <<1>> \o sum.s ELSE sum.s

RECURSIVE MulRange(_, _, _, _)
\* x times the natural whose bits are the bits lo..hi of y
MulRange(x, y, lo, hi) ==
    IF lo = hi THEN (IF y[lo] = 1 THEN x ELSE << >>)
    ELSE LET mid == (lo + hi) \div 2
         IN AddBits(ShiftLeft(MulRange(x, y, lo, mid), hi - mid),
                    MulRange(x, y, mid + 1, hi))

\* the product of two naturals
MulBits(x, y) == IF y = << >> THEN << >> ELSE MulRange(x, y, 1, Len(y))

RECURSIVE DivRange(_, _, _, _, _)
\* long division over the bits lo..hi of x, given the remainder so far
DivRange(x, d, lo, hi, rem) ==
    IF lo = hi
    THEN LET r == 2 * rem + x[lo]
         IN IF r >= d THEN [q |-> <<1>>, r |-> r - d]
                      ELSE [q |-> <<0>>, r |-> r]
    ELSE LET mid == (lo + hi) \div 2
             left == DivRange(x, d, lo, mid, rem)
             right == DivRange(x, d, mid + 1, hi, left.r)
         IN [q |-> left.q \o right.q, r |-> right.r]

\* quotient and remainder of a natural by a small positive integer
DivBits(x, d) ==
    IF x = << >> THEN [q |-> << >>, r |-> 0] ELSE DivRange(x, d, 1, Len(x), 0)

\* x > y for naturals
GtBits(x, y) ==
    LET n == Max(Len(x), Len(y))
        px == Pad(x, n)
        py == Pad(y, n)
    IN \E i \in 1..n : /\ px[i] > py[i]
                       /\ \A j \in 1..(i - 1) : px[j] = py[j]

\* m * 2^e with m odd, or zero
Canon(m, e) ==
    IF \A i \in 1..Len(m) : m[i] = 0 THEN [kind |-> "num", m |-> << >>, e |-> 0]
    ELSE LET s == Strip(m)
             k == CHOOSE i \in 1..Len(s) :
                     s[i] = 1 /\ \A j \in (i + 1)..Len(s) : s[j] = 0
         IN [kind |-> "num", m |-> SubSeq(s, 1, k), e |-> e + Len(s) - k]

\* the binary64 nearest to (x + f) * 2^e, where 0 <= f < 1 and sticky says
\* f > 0: the first 53 bits, rounded up when the rest is more than half a
\* unit in the last place, or is half a unit and the last bit kept is 1
Round(x, e, sticky) ==
    LET s == Strip(x)
    IN IF Len(s) <= Precision THEN Canon(s, e)
       ELSE LET keep == SubSeq(s, 1, Precision)
                half == s[Precision + 1] = 1
                more == sticky \/ \E i \in (Precision + 2)..Len(s) : s[i] = 1
                up   == half /\ (more \/ keep[Precision] = 1)
            IN Canon(IF up THEN AddBits(keep, <<1>>) ELSE keep,
                     e + Len(s) - Precision)

\* an integer as a number
Num(n) == Canon(ToBits(n), 0)

\* a + b
NumAdd(a, b) ==
    IF a.kind = "nan" \/ b.kind = "nan" THEN NaN
    ELSE IF a.kind = "inf" \/ b.kind = "inf" THEN Infinity
    ELSE LET e == Min(a.e, b.e)
         IN Round(AddBits(ShiftLeft(a.m, a.e - e), ShiftLeft(b.m, b.e - e)),
                  e, FALSE)

\* a * b
NumMul(a, b) ==
    IF a.kind = "nan" \/ b.kind = "nan" THEN NaN
    ELSE IF a.kind = "inf" \/ b.kind = "inf"
         THEN (IF (a.kind = "num" /\ a.m = << >>) \/ (b.kind = "num" /\ b.m = << >>)
               THEN NaN ELSE Infinity)
    ELSE Round(MulBits(a.m, b.m), a.e + b.e, FALSE)

\* a / d for an integer d >= 0: 0 / 0 is NaN, a / 0 is Infinity for a > 0;
\* the quotient is taken to 64 bits more than the dividend has
NumDiv(a, d) ==
    IF a.kind = "nan" THEN NaN
    ELSE IF a.kind = "inf" THEN Infinity
    ELSE IF d = 0 THEN (IF a.m = << >> THEN NaN ELSE Infinity)
    ELSE LET qr == DivBits(ShiftLeft(a.m, 64), d)
         IN Round(qr.q, a.e - 64, qr.r # 0)

\* the decimal literal n/d, e.g. 0.3 is Literal(3, 10)
Literal(n, d) == NumDiv(Num(n), d)

\* a > b; false when either is NaN
NumGt(a, b) ==
    IF a.kind = "nan" \/ b.kind = "nan" THEN FALSE
    ELSE IF a.kind = "inf" THEN b.kind # "inf"
    ELSE IF b.kind = "inf" THEN FALSE
    ELSE LET e == Min(a.e, b.e)
         IN GtBits(ShiftLeft(a.m, a.e - e), ShiftLeft(b.m, b.e - e))

\* Math.min(a, b): NaN when either is NaN
MathMin(a, b) ==
    IF a.kind = "nan" \/ b.kind = "nan" THEN NaN
    ELSE IF NumGt(a, b) THEN b ELSE a

----------------------------------------------------------------------------
\* The verification stub: BlockchainVerificationService and blockchainService

\* the UTF-16 code units (charCodeAt) of the strings of the model
CodeUnits ==
    ("r1" :> <<114, 49>>) @@ ("r2" :> <<114, 50>>) @@
    ("low" :> <<108, 111, 119>>) @@ ("high" :> <<104, 105, 103, 104>>)

\* JSON.stringify(data) of a payload: {"severity":"low"}
JSONStringify(data) ==
    <<123, 34, 115, 101, 118, 101, 114, 105, 116, 121, 34, 58, 34>> \o CodeUnits[data.severity] \o <<34, 125>>

RECURSIVE Decimal(_)
\* the decimal digits of a natural number, as code units
Decimal(n) ==
    IF n < 10 THEN <<48 + n>> ELSE Decimal(n \div 10) \o <<48 + (n % 10)>>

\* the text hashed: `${id}-${JSON.stringify(data)}-${Date.now()}`
hashedText(id, data, t) ==
    CodeUnits[id] \o <<45>> \o JSONStringify(data) \o <<45>> \o Decimal(t)

\* the text without the time
hashedText_noClock(id, data, t) ==
    CodeUnits[id] \o <<45>> \o JSONStringify(data) \o <<45>>

\* generateHash: the SHA-256 digest of the text in hex.  The digest is taken
\* as free of collisions and is represented by the text it is the digest of.
generateHash(id, data, t) == <<"sha256", hashedText(id, data, t)>>

RECURSIVE mockHashLoop(_, _, _)
\* the loop of generateMockHash over text[i..]: hash = ((hash << 5) - hash)
\* + char, then hash & hash, which is 31 * hash + char modulo 2^32.  The 32
\* bits are held as two halves of 16 bits.
mockHashLoop(text, i, hash) ==
    IF i > Len(text) THEN hash
    ELSE LET lo == hash.lo * 31 + text[i]
             hi == hash.hi * 31 + (lo \div 65536)
             next == [hi |-> hi % 65536, lo |-> lo % 65536]
         IN mockHashLoop(text, i + 1, next)

\* Math.abs of the 32 bits read as a signed integer
MathAbs32(hash) ==
    IF hash.hi < 32768 THEN hash
    ELSE [hi |-> (65535 - hash.hi + (IF hash.lo = 0 THEN 1 ELSE 0)) % 65536,
          lo |-> (65536 - hash.lo) % 65536]

\* toString(16).padStart(8, '0') of a number below 2^32: eight hex digits
Hex8(hash) ==
    LET digit == <<"0", "1", "2", "3", "4", "5", "6", "7", "8", "9",
                   "a", "b", "c", "d", "e", "f">>
        hex4(n) == <<digit[(n \div 4096) + 1], digit[((n \div 256) % 16) + 1],
                     digit[((n \div 16) % 16) + 1], digit[(n % 16) + 1]>>
    IN hex4(hash.hi) \o hex4(hash.lo)

\* the time left out of the text
generateMockHash_noClock(id, data, t) ==
    Hex8(MathAbs32(mockHashLoop(hashedText_noClock(id, data, t), 1,
                                [hi |-> 0, lo |-> 0])))

\* generateMockHash
generateMockHash(id, data, t) ==
    Hex8(MathAbs32(mockHashLoop(hashedText(id, data, t), 1,
                                [hi |-> 0, lo |-> 0])))

----------------------------------------------------------------------------
\* OpenAIClient pieces

\* an AIResponse; confidence in hundredths
AIResponse(text, confidence, fallback, t) ==
    [text |-> text, confidence |-> confidence, fallback |-> fallback,
     timestamp |-> t]

\* getFallbackResponse
getFallbackResponse(query, t) ==
    IF query.includes \cap {"unsafe", "walking alone"} # {}
    THEN AIResponse("Safety Tips for Traveling Alone", 60, TRUE, t)
    ELSE IF query.includes \cap {"emergency", "help"} # {}
    THEN AIResponse("Emergency Response", 70, TRUE, t)
    ELSE AIResponse("Thank you for your question", 50, TRUE, t)

\* getEmergencyFallback: emergencyMessages[emergencyType] ||
\* emergencyMessages.safety
getEmergencyFallback(emergencyType, t) ==
    AIResponse(<<IF emergencyType \in {"medical", "safety", "weather",
                                       "transport"}
                 THEN emergencyType ELSE "safety", "EMERGENCY">>,
               80, TRUE, t)

\* getRouteSafetyFallback
getRouteSafetyFallback(t) ==
    AIResponse("Route Safety Assessment", 60, TRUE, t)

\* callOpenAI: it throws without a key, when the fetch is rejected, when
\* the status is not OK, when response.json() rejects and when
\* data.choices is missing; else it returns the content or 'Unable to
\* generate response'.  fetches is the number of requests issued.
callOpenAI(client, outcome) ==
    IF client.apiKey = NoKey
    THEN [threw |-> TRUE, text |-> "", fetches |-> 0, outcome |-> "none"]
    ELSE IF outcome \in {"network_error", "not_ok", "bad_json", "no_choices"}
    THEN [threw |-> TRUE, text |-> "", fetches |-> 1, outcome |-> outcome]
    ELSE [threw |-> FALSE,
          text |-> IF outcome = "content" THEN "content"
                   ELSE "Unable to generate response",
          fetches |-> 1, outcome |-> outcome]

\* the guard gone wrong: the test mode forgotten
usesFallback_keyOnly(client) == client.apiKey = NoKey

\* this.isTestMode || !this.apiKey
usesFallback(client) == client.isTestMode \/ client.apiKey = NoKey

\* the body shared by the three methods: the fallback at once, or the call
\* in a try whose catch returns the fallback
respond(client, outcome, confidence, fallbackResponse, t) ==
    IF usesFallback(client)
    THEN [response |-> fallbackResponse, fetches |-> 0, outcome |-> "none"]
    ELSE LET call == callOpenAI(client, outcome)
         IN [response |-> IF call.threw THEN fallbackResponse
                          ELSE AIResponse(call.text, confidence, FALSE, t),
             fetches |-> call.fetches, outcome |-> call.outcome]

----------------------------------------------------------------------------
\* HazardSummaryService pieces

\* the halving of line 149 left out
overallRisk_unhalved(totalReports, recentReports, criticalReports, highReports) ==
    LET recentWeight == MathMin(NumDiv(Num(recentReports), 10), Num(1))
        severityWeight ==
            NumDiv(NumAdd(NumMul(Num(criticalReports), Literal(5, 10)),
                          NumMul(Num(highReports), Literal(3, 10))),
                   totalReports)
    IN MathMin(NumAdd(recentWeight, severityWeight), Num(1))

\* lines 145-150 of analyzeDisasterReports: recentWeight, severityWeight and
\* overallRisk from the counts
overallRisk(totalReports, recentReports, criticalReports, highReports) ==
    LET recentWeight == MathMin(NumDiv(Num(recentReports), 10), Num(1))
        severityWeight ==
            NumDiv(NumAdd(NumMul(Num(criticalReports), Literal(5, 10)),
                          NumMul(Num(highReports), Literal(3, 10))),
                   totalReports)
    IN MathMin(NumDiv(NumAdd(recentWeight, severityWeight), 2), Num(1))

\* overallRisk over the counts that lists of the model have, computed once
\* (the @@ makes the function an explicit table of values)
riskTable ==
    [t \in {u \in (0..MaxLongReports) \X (0..MaxLongReports)
                    \X (0..MaxLongReports) \X (0..MaxLongReports) :
                u[2] <= u[1] /\ u[3] + u[4] <= u[1]}
        |-> overallRisk(t[1], t[2], t[3], t[4])] @@ << >>

\* analyzeDisasterReports at time t, without the counts per disaster type
\* and the clusters of places
analyzeDisasterReports(disasterReports, t) ==
    LET last24Hours == t - Day
        reports == 1..Len(disasterReports)
        totalReports == Len(disasterReports)
        recentReports ==
            Cardinality({i \in reports :
                            disasterReports[i].created_at > last24Hours})
        criticalReports ==
            Cardinality({i \in reports :
                            disasterReports[i].severity = "critical"})
        highReports ==
            Cardinality({i \in reports :
                            disasterReports[i].severity = "high"})
    IN [totalReports |-> totalReports,
        recentReports |-> recentReports,
        criticalReports |-> criticalReports,
        highReports |-> highReports,
        overallRisk |-> riskTable[<<totalReports, recentReports,
                                    criticalReports, highReports>>]]

\* the thresholds of generateMockHazardSummary: 0.7, 0.5, 0.3
Thresholds ==
    [critical |-> Literal(7, 10), high |-> Literal(5, 10),
     medium |-> Literal(3, 10)]

\* the comparison gone wrong: >= for >
exceeds_orEquals(risk, threshold) == NumGt(risk, threshold) \/ risk = threshold

\* analysis.overallRisk > threshold
exceeds(risk, threshold) == NumGt(risk, threshold)

\* the riskLevel of generateMockHazardSummary
riskLevelOf(risk) ==
    IF exceeds(risk, Thresholds.critical) THEN "critical"
    ELSE IF exceeds(risk, Thresholds.high) THEN "high"
    ELSE IF exceeds(risk, Thresholds.medium) THEN "medium"
    ELSE "low"

\* riskLevelOf over the risks that lists of the model have, computed once
riskLevelTable ==
    [risk \in {riskTable[t] : t \in DOMAIN riskTable} |-> riskLevelOf(risk)]
        @@ << >>

\* generateMockRecommendations: the base recommendations, then those of the
\* disaster type or, for a type not in the table, the general ones; the
\* severity is not used
generateMockRecommendations(disasterType, severity) ==
    LET baseRecommendations ==
            <<"Stay calm and assess the situation",
              "Move to a safe location if possible",
              "Call emergency services immediately",
              "Follow local emergency guidelines">>
        typeSpecificRecommendations ==
            [flood |-> <<"Move to higher ground immediately",
                         "Avoid walking or driving through floodwaters",
                         "Stay away from rivers and streams">>,
             general |-> <<"Stay alert and aware of your surroundings",
                           "Keep emergency contacts readily available",
                           "Monitor local news and weather updates",
                           "Share your location with trusted contacts">>]
    IN baseRecommendations \o
         (IF disasterType \in DOMAIN typeSpecificRecommendations
          THEN typeSpecificRecommendations[disasterType]
          ELSE typeSpecificRecommendations.general)

\* generateHazardSummary: the analysis and, of the summary made from it,
\* the riskLevel and the recommendations (for a list of well-formed reports
\* nothing throws, so the fallback summary of the catch is not reached)
generateHazardSummary(disasterReports, t) ==
    LET analysis == analyzeDisasterReports(disasterReports, t)
        riskLevel == riskLevelTable[analysis.overallRisk]
    IN [analysis |-> analysis,
        riskLevel |-> riskLevel,
        recommendations |-> generateMockRecommendations("general", riskLevel)]

----------------------------------------------------------------------------
\* Call slots and the record of the last completed call

Idle == [pc |-> "idle", arg |-> << >>, user |-> NoSession]

\* a call starts in the lowest free slot
IsFree(c) ==
    /\ calls[c].pc = "idle"
    /\ \A d \in 1..(c - 1) : calls[d].pc # "idle"

\* op, arg: the call; kind, value: what it returned or threw; at: the clock
\* when it completed; before, profileBefore, sessionBefore: the stored
\* reports, profile and session when its last step began; user: the session
\* user the call had read
Ret(op, arg, kind, value, user) ==
    [op |-> op, arg |-> arg, kind |-> kind, value |-> value,
     at |-> now, before |-> disasters, profileBefore |-> profile,
     sessionBefore |-> session, user |-> user]

NoRet == [op |-> "none", arg |-> << >>, kind |-> "none", value |-> << >>,
          at |-> NoTime, before |-> << >>, profileBefore |-> NoProfile,
          sessionBefore |-> NoSession, user |-> NoSession]

\* the reportDisaster calls in flight
ReportsInFlight == {c \in Calls : calls[c].pc = "report_auth"}

\* reportDisaster calls so far that returned or may still return a report
ReportCalls == Len(returned) + Cardinality(ReportsInFlight)

\* the services and providers other than the store, as constructed: the
\* exported openaiClient has no key and is not in test mode, the
\* verification service is not enabled, the providers hold their initial
\* useState values and have nothing in flight
ServicesInit ==
    /\ openaiClient = [apiKey |-> NoKey, isTestMode |-> FALSE]
    /\ isEnabled = FALSE
    /\ verifications = << >>
    /\ authContext = AuthContext0
    /\ disasterContext = DisasterContext0


\* initializeStorage on empty storage, nobody signed in
Init ==
    /\ now = Clock0
    /\ session = NoSession
    /\ profile = DEMO_USER
    /\ disasters = MOCK_DISASTER_REPORTS
    /\ zones = MOCK_DANGER_ZONES
    /\ failing = {}
    /\ corrupt = {}
    /\ calls = [c \in Calls |-> Idle]
    /\ lastRet = NoRet
    /\ returned = << >>
    /\ ServicesInit

\* time passes
Tick ==
    /\ now < MaxClock
    /\ now' = now + 1
    /\ UNCHANGED <<session, profile, disasters, zones, failing, corrupt, calls,
                   lastRet, returned,
                   openaiClient, isEnabled, verifications, authContext,
                   disasterContext>>

----------------------------------------------------------------------------
\* authService

\* `user-${Date.now()}`
newUserId(t) == <<"user", t>>

\* the profile object literal of signUp
newProfile(idTime, username, createdTime) ==
    [id |-> newUserId(idTime), username |-> username, full_name |-> NoName,
     created_at |-> createdTime, updated_at |-> NoTime]

\* the merge gone wrong: the update replaces the profile, the fields it
\* does not name are lost
updatedProfile_replaced(currentProfile, updates, t) ==
    LET field(f, absent) == IF f \in DOMAIN updates THEN updates[f] ELSE absent
    IN [id |-> field("id", Nobody),
        username |-> field("username", NoName),
        full_name |-> field("full_name", NoName),
        created_at |-> field("created_at", NoTime),
        updated_at |-> t]

\* { ...currentProfile, ...updates, updated_at: new Date().toISOString() }
updatedProfile(currentProfile, updates, t) ==
    LET field(f) == IF f \in DOMAIN updates THEN updates[f] ELSE currentProfile[f]
    IN [id |-> field("id"),
        username |-> field("username"),
        full_name |-> field("full_name"),
        created_at |-> field("created_at"),
        updated_at |-> t]

\* signUp after its timer: Date.now() for the id, new Date() for created_at
\* (the clock may tick between the two reads), then the profile written and
\* the session written; it returns the user { id, email, created_at }
SignUp(username) ==
    /\ \E createdTime \in {now, Min(now + 1, MaxClock)} :
          /\ profile' = setToStorage(STORAGE_KEYS.USER, profile,
                                     newProfile(now, username, createdTime))
          /\ session' = setToStorage(STORAGE_KEYS.SESSION, session,
                                     newUserId(now))
          /\ lastRet' = Ret("signUp", <<username>>, "ok",
                            [id |-> newUserId(now), created_at |-> createdTime],
                            NoSession)
          /\ now' = createdTime
    /\ corrupt' = corrupt \ (written(STORAGE_KEYS.USER)
                                \cup written(STORAGE_KEYS.SESSION))
    /\ UNCHANGED <<disasters, zones, failing, calls, returned,
                   openaiClient, isEnabled, verifications, authContext,
                   disasterContext>>

\* signIn after its timer: the session of demo-user-123 written
SignIn ==
    /\ session' = setToStorage(STORAGE_KEYS.SESSION, session, DemoUserId)
    /\ corrupt' = corrupt \ written(STORAGE_KEYS.SESSION)
    /\ lastRet' = Ret("signIn", << >>, "ok", DemoUserId, NoSession)
    /\ UNCHANGED <<now, profile, disasters, zones, failing, calls, returned,
                   openaiClient, isEnabled, verifications, authContext,
                   disasterContext>>

\* signOut after its timer: localStorage.removeItem(resq_session)
SignOut ==
    /\ session' = NoSession
    /\ corrupt' = corrupt \ {STORAGE_KEYS.SESSION}
    /\ lastRet' = Ret("signOut", << >>, "ok", << >>, NoSession)
    /\ UNCHANGED <<now, profile, disasters, zones, failing, calls, returned,
                   openaiClient, isEnabled, verifications, authContext,
                   disasterContext>>

\* getCurrentUser: no timer, one step
GetCurrentUser ==
    /\ lastRet' = Ret("getCurrentUser", << >>, "user", getCurrentUser(session),
                      NoSession)
    /\ UNCHANGED <<now, session, profile, disasters, zones, failing, corrupt,
                   calls, returned,
                   openaiClient, isEnabled, verifications, authContext,
                   disasterContext>>

\* updateProfile: no await, one step; the session is not looked at
UpdateProfile(updates) ==
    /\ LET currentProfile == storedProfile(profile)
       IN IF currentProfile = NoProfile
          THEN /\ lastRet' = Ret("updateProfile", updates, "error",
                                 "No authenticated user", getCurrentUser(session))
               /\ UNCHANGED <<profile, corrupt>>
          ELSE LET updated == updatedProfile(currentProfile, updates, now)
               IN /\ profile' = setToStorage(STORAGE_KEYS.USER, profile, updated)
                  /\ corrupt' = corrupt \ written(STORAGE_KEYS.USER)
                  /\ lastRet' = Ret("updateProfile", updates, "profile", updated,
                                    getCurrentUser(session))
    /\ UNCHANGED <<now, session, disasters, zones, failing, calls, returned,
                   openaiClient, isEnabled, verifications, authContext,
                   disasterContext>>

----------------------------------------------------------------------------
\* disasterService

\* reportDisaster after its timer: authService.getCurrentUser() reads the
\* session, and the call awaits the promise it returns
ReportDisasterAuth(c, report) ==
    /\ IsFree(c)
    /\ ReportCalls < MaxReports
    /\ calls' = [calls EXCEPT ![c] = [pc |-> "report_auth", arg |-> report,
                                      user |-> getCurrentUser(session)]]
    /\ UNCHANGED <<now, session, profile, disasters, zones, failing, corrupt,
                   lastRet, returned,
                   openaiClient, isEnabled, verifications, authContext,
                   disasterContext>>

\* `if (!user) throw new Error('Authentication required')`
ReportDisasterThrow(c) ==
    /\ calls[c].pc = "report_auth"
    /\ ~authenticated(calls[c].user)
    /\ lastRet' = Ret("reportDisaster", calls[c].arg, "error",
                      "Authentication required", calls[c].user)
    /\ calls' = [calls EXCEPT ![c] = Idle]
    /\ UNCHANGED <<now, session, profile, disasters, zones, failing, corrupt,
                   returned,
                   openaiClient, isEnabled, verifications, authContext,
                   disasterContext>>

\* the rest of reportDisaster, with no await in it: Date.now() for the id,
\* new Date() for created_at (the clock may tick between the two reads),
\* then read the list, unshift, write the list, return the report.
\* returned records the report and whether another call was in flight that
\* will store a report too.
ReportDisasterStore(c) ==
    /\ calls[c].pc = "report_auth"
    /\ authenticated(calls[c].user)
    /\ \E createdTime \in {now, Min(now + 1, MaxClock)} :
          LET r == newReport(now, calls[c].user, createdTime, calls[c].arg)
              list == storedDisasters(disasters)
          IN /\ disasters' = setToStorage(STORAGE_KEYS.DISASTERS, disasters,
                                          unshift(list, r))
             /\ returned' = Append(returned,
                   [report |-> r,
                    overlap |-> \E d \in Calls \ {c} :
                                    /\ calls[d].pc = "report_auth"
                                    /\ authenticated(calls[d].user)])
             /\ lastRet' = Ret("reportDisaster", calls[c].arg, "report", r,
                               calls[c].user)
             /\ now' = createdTime
    /\ corrupt' = corrupt \ written(STORAGE_KEYS.DISASTERS)
    /\ calls' = [calls EXCEPT ![c] = Idle]
    /\ UNCHANGED <<session, profile, zones, failing,
                   openaiClient, isEnabled, verifications, authContext,
                   disasterContext>>

\* getDisasterReports after its timer: read the list, slice it
GetDisasterReports(limit, offset) ==
    /\ lastRet' = Ret("getDisasterReports", <<limit, offset>>, "list",
                      pageOfDisasters(storedDisasters(disasters),
                                      limit, offset),
                      NoSession)
    /\ UNCHANGED <<now, session, profile, disasters, zones, failing, corrupt,
                   calls, returned,
                   openaiClient, isEnabled, verifications, authContext,
                   disasterContext>>

\* getDisasterReportsByLocation: no await, one step
GetDisasterReportsByLocation(lat, lng, radiusKm, limit) ==
    /\ lastRet' = Ret("getDisasterReportsByLocation", <<lat, lng, radiusKm, limit>>,
                      "list",
                      nearbyDisasters(storedDisasters(disasters),
                                      lat, lng, radiusKm, limit),
                      NoSession)
    /\ UNCHANGED <<now, session, profile, disasters, zones, failing, corrupt,
                   calls, returned,
                   openaiClient, isEnabled, verifications, authContext,
                   disasterContext>>

\* verifyDisasterReport: no await, one step
VerifyDisasterReport(reportId, verified) ==
    /\ LET list == storedDisasters(disasters)
           i == findIndex(list, reportId)
       IN IF i # 0
          THEN LET report == verifyMutation(list[i], verified, now)
               IN /\ disasters' = setToStorage(STORAGE_KEYS.DISASTERS, disasters,
                                      [list EXCEPT ![i] = report])
                  /\ corrupt' = corrupt \ written(STORAGE_KEYS.DISASTERS)
                  /\ lastRet' = Ret("verifyDisasterReport", <<reportId, verified>>,
                                    "report", report, NoSession)
          ELSE /\ lastRet' = Ret("verifyDisasterReport", <<reportId, verified>>,
                                 "undefined", << >>, NoSession)
               /\ UNCHANGED <<disasters, corrupt>>
    /\ UNCHANGED <<now, session, profile, zones, failing, calls, returned,
                   openaiClient, isEnabled, verifications, authContext,
                   disasterContext>>

----------------------------------------------------------------------------
\* dangerZoneService

\* getDangerZones after its timer: the stored list as it is
GetDangerZones ==
    /\ lastRet' = Ret("getDangerZones", << >>, "list", storedZones(zones),
                      NoSession)
    /\ UNCHANGED <<now, session, profile, disasters, zones, failing, corrupt,
                   calls, returned,
                   openaiClient, isEnabled, verifications, authContext,
                   disasterContext>>

\* checkLocationInDangerZone: no await, one step
CheckLocationInDangerZone(lat, lng) ==
    /\ lastRet' = Ret("checkLocationInDangerZone", <<lat, lng>>, "list",
                      zonesAtLocation(storedZones(zones), lat, lng), NoSession)
    /\ UNCHANGED <<now, session, profile, disasters, zones, failing, corrupt,
                   calls, returned,
                   openaiClient, isEnabled, verifications, authContext,
                   disasterContext>>

\* generateSafetyAdvice(query, context)
GenerateSafetyAdvice(query, outcome) ==
    /\ lastRet' = Ret("generateSafetyAdvice", <<query>>, "response",
                      respond(openaiClient, outcome, 90,
                              getFallbackResponse(query, now), now),
                      NoSession)
    /\ UNCHANGED <<now, session, profile, disasters, zones, failing, corrupt,
                   calls, returned, openaiClient, isEnabled, verifications,
                   authContext, disasterContext>>

\* generateEmergencyMessage(emergencyType, context)
GenerateEmergencyMessage(emergencyType, outcome) ==
    /\ lastRet' = Ret("generateEmergencyMessage", <<emergencyType>>,
                      "response",
                      respond(openaiClient, outcome, 95,
                              getEmergencyFallback(emergencyType, now), now),
                      NoSession)
    /\ UNCHANGED <<now, session, profile, disasters, zones, failing, corrupt,
                   calls, returned, openaiClient, isEnabled, verifications,
                   authContext, disasterContext>>

\* assessRouteSafety(route, context)
AssessRouteSafety(outcome) ==
    /\ lastRet' = Ret("assessRouteSafety", << >>, "response",
                      respond(openaiClient, outcome, 85,
                              getRouteSafetyFallback(now), now),
                      NoSession)
    /\ UNCHANGED <<now, session, profile, disasters, zones, failing, corrupt,
                   calls, returned, openaiClient, isEnabled, verifications,
                   authContext, disasterContext>>

\* one verification: what was given, the clock value read, the hash, which
\* function made it and whether the call has returned
Verification(stub, id, data, hash, done) ==
    [stub |-> stub, id |-> id, data |-> data, at |-> now, hash |-> hash,
     done |-> done]

\* verifyDisasterReport of a service that is not enabled:
\* getMockVerification, with no await
GetMockVerification(reportId, reportData) ==
    /\ ~isEnabled
    /\ Len(verifications) < MaxVerifications
    /\ LET hash == generateMockHash(reportId, reportData, now)
       IN /\ verifications' =
                Append(verifications,
                       Verification("mock", reportId, reportData, hash, TRUE))
          /\ lastRet' = Ret("verifyDisasterReport", <<reportId, reportData>>,
                            "verification", hash, NoSession)
    /\ UNCHANGED <<now, session, profile, disasters, zones, failing, corrupt,
                   calls, returned, openaiClient, isEnabled, authContext,
                   disasterContext>>

\* verifyDisasterReport of an enabled service up to its first await:
\* generateHash has read the clock
VerifyDisasterReportHash(reportId, reportData) ==
    /\ isEnabled
    /\ Len(verifications) < MaxVerifications
    /\ verifications' =
          Append(verifications,
                 Verification("enabled", reportId, reportData,
                              generateHash(reportId, reportData, now), FALSE))
    /\ UNCHANGED <<now, session, profile, disasters, zones, failing, corrupt,
                   calls, lastRet, returned, openaiClient, isEnabled,
                   authContext, disasterContext>>

\* the same call after the digest and submitToBlockchain: it returns
VerifyDisasterReportReturn(i) ==
    /\ i \in 1..Len(verifications)
    /\ ~verifications[i].done
    /\ verifications' = [verifications EXCEPT ![i].done = TRUE]
    /\ lastRet' = Ret("verifyDisasterReport",
                      <<verifications[i].id, verifications[i].data>>,
                      "verification", verifications[i].hash, NoSession)
    /\ UNCHANGED <<now, session, profile, disasters, zones, failing, corrupt,
                   calls, returned, openaiClient, isEnabled, authContext,
                   disasterContext>>

\* blockchainService.verifyIncident after its timer: generateHash reads the
\* clock, and the call returns after the digest
VerifyIncident(incidentId, data) ==
    /\ Len(verifications) < MaxVerifications
    /\ LET hash == generateHash(incidentId, data, now)
       IN /\ verifications' =
                Append(verifications,
                       Verification("incident", incidentId, data, hash, TRUE))
          /\ lastRet' = Ret("verifyIncident", <<incidentId, data>>,
                            "verification", hash, NoSession)
    /\ UNCHANGED <<now, session, profile, disasters, zones, failing, corrupt,
                   calls, returned, openaiClient, isEnabled, authContext,
                   disasterContext>>

\* calculateDistance(lat1, lon1, lat2, lon2), a function of the module
CalculateDistance(p, q) ==
    /\ lastRet' = Ret("calculateDistance", <<p, q>>, "number",
                      calculateDistance(p[1], p[2], q[1], q[2]), NoSession)
    /\ UNCHANGED <<now, session, profile, disasters, zones, failing, corrupt,
                   calls, returned,
                   openaiClient, isEnabled, verifications, authContext,
                   disasterContext>>

----------------------------------------------------------------------------
\* The store under concurrent writers

Next ==
    \/ Tick
    \/ SignIn
    \/ SignOut
    \/ \E c \in Calls, report \in PartialReports : ReportDisasterAuth(c, report)
    \/ \E c \in Calls : ReportDisasterThrow(c)
    \/ \E c \in Calls : ReportDisasterStore(c)
    \/ \E reportId \in ReportIds, verified \in BOOLEAN :
          VerifyDisasterReport(reportId, verified)

Spec == Init /\ [][Next]_vars

----------------------------------------------------------------------------
\* The read operations, over the lists that one-at-a-time writers produce

QueryNext ==
    \/ Tick
    \/ SignIn
    \/ \E c \in Calls, report \in PartialReports :
          ReportsInFlight = {} /\ ReportDisasterAuth(c, report)
    \/ \E c \in Calls : ReportDisasterStore(c)
    \/ \E limit \in Limits, offset \in Offsets : GetDisasterReports(limit, offset)
    \/ \E p \in QueryPoints, radiusKm \in Radii, limit \in Limits :
          GetDisasterReportsByLocation(p[1], p[2], radiusKm, limit)

QuerySpec == Init /\ [][QueryNext]_vars

----------------------------------------------------------------------------
\* The profile, under every operation of the three services

\* one reportDisaster call, one seeded report to verify, the reads with
\* their default arguments
ProfileNext ==
    \/ Tick
    \/ \E username \in Usernames : SignUp(username)
    \/ SignIn
    \/ SignOut
    \/ \E updates \in ProfileUpdates : UpdateProfile(updates)
    \/ \E c \in Calls, report \in PartialReports :
          /\ ReportsInFlight = {}
          /\ returned = << >>
          /\ report.status = "open"
          /\ ReportDisasterAuth(c, report)
    \/ \E c \in Calls : ReportDisasterThrow(c)
    \/ \E c \in Calls : ReportDisasterStore(c)
    \/ VerifyDisasterReport(MOCK_DISASTER_REPORTS[1].id, TRUE)
    \/ GetCurrentUser
    \/ \E limit \in Limits \ {0, 1, 2}, offset \in Offsets \ {2, 3, 10} :
          GetDisasterReports(limit, offset)
    \/ GetDangerZones

ProfileSpec == Init /\ [][ProfileNext]_vars

----------------------------------------------------------------------------
\* The writing operations on a storage whose setItem may throw

\* the storage fills up or is freed: from now on setItem throws on `keys`
StorageFault(keys) ==
    /\ failing # keys
    /\ failing' = keys
    /\ UNCHANGED <<now, session, profile, disasters, zones, corrupt, calls,
                   lastRet, returned,
                   openaiClient, isEnabled, verifications, authContext,
                   disasterContext>>

\* one reportDisaster call, one seeded report to verify, one key failing at
\* a time
FaultNext ==
    \/ Tick
    \/ \E key \in WrittenKeys : StorageFault({key})
    \/ StorageFault({})
    \/ \E username \in Usernames : SignUp(username)
    \/ SignIn
    \/ \E updates \in ProfileUpdates : UpdateProfile(updates)
    \/ \E c \in Calls, report \in PartialReports :
          /\ ReportsInFlight = {}
          /\ returned = << >>
          /\ report.status = "open"
          /\ ReportDisasterAuth(c, report)
    \/ \E c \in Calls : ReportDisasterStore(c)
    \/ \E verified \in BOOLEAN :
          VerifyDisasterReport(MOCK_DISASTER_REPORTS[1].id, verified)

FaultSpec == Init /\ [][FaultNext]_vars

----------------------------------------------------------------------------
\* The reads on a storage that holds text JSON.parse rejects

\* initializeStorage keeps every key that holds text, whether the text
\* parses or not: any of the four keys may be corrupt at load (the variable
\* then holds the value the text was meant to be), and a session may be
\* there or not
MalformedInit ==
    /\ now = Clock0
    /\ session \in {NoSession, DemoUserId}
    /\ profile = DEMO_USER
    /\ disasters = MOCK_DISASTER_REPORTS
    /\ zones = MOCK_DANGER_ZONES
    /\ failing = {}
    /\ corrupt \in SUBSET Keys
    /\ (STORAGE_KEYS.SESSION \in corrupt => session # NoSession)
    /\ calls = [c \in Calls |-> Idle]
    /\ lastRet = NoRet
    /\ returned = << >>
    /\ ServicesInit

\* one reportDisaster call, which writes the list anew; the reads with
\* their default arguments and with one other limit and offset
MalformedNext ==
    \/ Tick
    \/ SignIn
    \/ SignOut
    \/ \E c \in Calls, report \in PartialReports :
          /\ ReportsInFlight = {}
          /\ returned = << >>
          /\ report.status = "open"
          /\ ReportDisasterAuth(c, report)
    \/ \E c \in Calls : ReportDisasterThrow(c)
    \/ \E c \in Calls : ReportDisasterStore(c)
    \/ GetCurrentUser
    \/ \E limit \in Limits \ {0, 2}, offset \in Offsets \ {3, 10} :
          GetDisasterReports(limit, offset)
    \/ \E p \in QueryPoints, radiusKm \in Radii \ {0}, limit \in Limits \ {0, 1, 2} :
          GetDisasterReportsByLocation(p[1], p[2], radiusKm, limit)
    \/ \E reportId \in ReportIds \ {newReportId(Clock0)} :
          VerifyDisasterReport(reportId, TRUE)
    \/ GetDangerZones

MalformedSpec == MalformedInit /\ [][MalformedNext]_vars

----------------------------------------------------------------------------
\* The hazard summary, over the report lists of the model

\* generateHazardSummary has no await before it returns: one step
GenerateHazardSummary(disasterReports) ==
    /\ lastRet' = Ret("generateHazardSummary", disasterReports, "summary",
                      generateHazardSummary(disasterReports, now), NoSession)
    /\ UNCHANGED <<now, session, profile, disasters, zones, failing, corrupt,
                   calls, returned,
                   openaiClient, isEnabled, verifications, authContext,
                   disasterContext>>

HazardNext ==
    \/ Tick
    \/ \E disasterReports \in SummaryLists \cup LongLists :
          GenerateHazardSummary(disasterReports)

HazardSpec == Init /\ [][HazardNext]_vars

----------------------------------------------------------------------------
\* The danger zones, over the zone lists storage may hold at load

\* initializeStorage keeps a resq_danger_zones key that is already there
ZoneInit ==
    /\ now = Clock0
    /\ session = NoSession
    /\ profile = DEMO_USER
    /\ disasters = MOCK_DISASTER_REPORTS
    /\ zones \in ZoneLists
    /\ failing = {}
    /\ corrupt = {}
    /\ calls = [c \in Calls |-> Idle]
    /\ lastRet = NoRet
    /\ returned = << >>
    /\ ServicesInit

ZoneNext ==
    \/ Tick
    \/ GetDangerZones
    \/ \E p \in ZoneQueryPoints : CheckLocationInDangerZone(p[1], p[2])

ZoneSpec == ZoneInit /\ [][ZoneNext]_vars

----------------------------------------------------------------------------
\* Properties of reportDisaster

\* C1: the ids of the stored reports are pairwise distinct, and so are the
\* ids of the reports reportDisaster has returned.
C1_UniqueIds ==
    /\ \A i, j \in 1..Len(disasters) :
          i # j => disasters[i].id # disasters[j].id
    /\ \A i, j \in 1..Len(returned) :
          i # j => returned[i].report.id # returned[j].report.id

\* C2: a reportDisaster call that finds no session stored throws
\* 'Authentication required', returns no report and leaves the stored list
\* as it was.
C2_AuthRequired ==
    (lastRet.op = "reportDisaster" /\ lastRet.user = NoSession) =>
        /\ lastRet.kind = "error"
        /\ lastRet.value = "Authentication required"
        /\ disasters = lastRet.before

\* a call was refused although reports had been stored before: after signOut
C2_Witness ==
    /\ lastRet.op = "reportDisaster"
    /\ lastRet.user = NoSession
    /\ lastRet.kind = "error"
    /\ Len(disasters) > Len(MOCK_DISASTER_REPORTS)

\* C3: when reportDisaster returns report R, the stored list is R followed
\* by the list as it was, and getDisasterReports(limit >= 1, 0) on it has R
\* as its first element.
C3_Prepend ==
    (lastRet.op = "reportDisaster" /\ lastRet.kind = "report") =>
        /\ disasters = <<lastRet.value>> \o lastRet.before
        /\ \A limit \in Limits \ {0} :
              pageOfDisasters(disasters, limit, 0)[1] = lastRet.value

\* a second report was put before the first one
C3_Witness ==
    /\ lastRet.op = "reportDisaster"
    /\ lastRet.kind = "report"
    /\ Len(lastRet.before) = Len(MOCK_DISASTER_REPORTS) + 1
    /\ disasters[1] = lastRet.value

\* the k-th report returned and the stored report at its place agree on
\* what reportDisaster set and verifyDisasterReport leaves alone
Stored(k) ==
    LET r == returned[k].report
        d == disasters[Len(returned) - k + 1]
    IN /\ d.id = r.id
       /\ d.reporter_id = r.reporter_id
       /\ d.created_at = r.created_at
       /\ d.latitude = r.latitude
       /\ d.longitude = r.longitude

\* two calls were in flight together and both have returned
BothReturned ==
    /\ Len(returned) >= 2
    /\ returned[1].overlap
    /\ ReportsInFlight = {}

C14_StatusOpen ==
    (lastRet.op = "reportDisaster" /\ lastRet.kind = "report") =>
        /\ lastRet.value.status = "open"
        /\ disasters[1].status = "open"

----------------------------------------------------------------------------
\* Properties of verifyDisasterReport

\* the places of the list `before` that hold a report with this id
PlacesOf(before, id) == {i \in 1..Len(before) : before[i].id = id}

\* C5: verifyDisasterReport(id, verified) on an id in the store returns the
\* report; one report with that id has status 'verified' or 'false_alarm'
\* as the flag says, verified_at set to the time of the call and verified_by
\* set, its other fields and its place as before; every other report is as
\* before; the stored list is the changed list.
C5_VerifyFrame ==
    (lastRet.op = "verifyDisasterReport"
        /\ PlacesOf(lastRet.before, lastRet.arg[1]) # {}) =>
      /\ lastRet.kind = "report"
      /\ Len(disasters) = Len(lastRet.before)
      /\ \E i \in PlacesOf(lastRet.before, lastRet.arg[1]) :
            /\ disasters[i] = lastRet.value
            /\ disasters[i].status =
                  (IF lastRet.arg[2] THEN "verified" ELSE "false_alarm")
            /\ disasters[i].verified_at = lastRet.at
            /\ disasters[i].verified_by = Admin
            /\ disasters[i].id = lastRet.before[i].id
            /\ disasters[i].created_at = lastRet.before[i].created_at
            /\ disasters[i].reporter_id = lastRet.before[i].reporter_id
            /\ disasters[i].latitude = lastRet.before[i].latitude
            /\ disasters[i].longitude = lastRet.before[i].longitude
            /\ \A j \in 1..Len(disasters) :
                  j # i => disasters[j] = lastRet.before[j]

\* a report in the middle of the list was marked a false alarm
C5_Witness ==
    /\ lastRet.op = "verifyDisasterReport"
    /\ lastRet.kind = "report"
    /\ lastRet.arg[2] = FALSE
    /\ Len(disasters) > Len(MOCK_DISASTER_REPORTS)
    /\ \E i \in 2..(Len(disasters) - 1) :
          /\ disasters[i].id = lastRet.arg[1]
          /\ disasters[i].status = "false_alarm"

\* C6: verifyDisasterReport on an id that is not in the store returns
\* undefined, throws nothing and leaves the stored list as it was.
C6_VerifyUnknown ==
    (lastRet.op = "verifyDisasterReport"
        /\ PlacesOf(lastRet.before, lastRet.arg[1]) = {}) =>
      /\ lastRet.kind = "undefined"
      /\ disasters = lastRet.before

\* an id no report has was asked for, with reports added since the seeding
C6_Witness ==
    /\ lastRet.op = "verifyDisasterReport"
    /\ lastRet.arg[1] = <<"disaster", 99>>
    /\ lastRet.kind = "undefined"
    /\ Len(disasters) > Len(MOCK_DISASTER_REPORTS)

\* C7: the last completed call changed the status of a report only from
\* open to verified or false_alarm, and only verifyDisasterReport did so
\* (the reports of `before` are the last Len(before) of the stored list).
C7_OnlyFromOpen ==
    lastRet.op # "none" =>
      LET shift == Len(disasters) - Len(lastRet.before)
      IN \A j \in 1..Len(lastRet.before) :
            \/ disasters[j + shift].status = lastRet.before[j].status
            \/ /\ lastRet.op = "verifyDisasterReport"
               /\ lastRet.before[j].status = "open"
               /\ disasters[j + shift].status \in {"verified", "false_alarm"}

\* C8: the stored list is newest first: created_at never increases from
\* the first element to the last.
C8_NewestFirst ==
    \A i \in 1..(Len(disasters) - 1) :
        disasters[i].created_at >= disasters[i + 1].created_at

\* two reports were added at different times and one report was verified
C8_Witness ==
    /\ Len(disasters) >= Len(MOCK_DISASTER_REPORTS) + 2
    /\ disasters[1].created_at > disasters[2].created_at
    /\ disasters[2].created_at > disasters[3].created_at
    /\ \E i \in 1..Len(disasters) : disasters[i].verified_by = Admin

----------------------------------------------------------------------------
\* Properties of the read operations (QuerySpec)

\* C9: getDisasterReports(limit, offset) returns the elements at places
\* offset .. offset+limit-1 of the stored list (those that exist), in stored
\* order; nothing when offset is at or past the end; it throws nothing and
\* leaves the stored list as it was.
C9_Page ==
    lastRet.op = "getDisasterReports" =>
      LET limit  == lastRet.arg[1]
          offset == lastRet.arg[2]
          n      == Len(lastRet.before)
          k      == Max(0, Min(limit, n - offset))
      IN /\ lastRet.kind = "list"
         /\ Len(lastRet.value) = k
         /\ \A j \in 1..k : lastRet.value[j] = lastRet.before[offset + j]
         /\ offset >= n => lastRet.value = << >>
         /\ disasters = lastRet.before

\* limit 2 at offset 3 of a list of four: the last report alone
C9_Witness ==
    /\ lastRet.op = "getDisasterReports"
    /\ lastRet.arg = <<2, 3>>
    /\ Len(lastRet.before) = Len(MOCK_DISASTER_REPORTS) + 1
    /\ lastRet.value = <<lastRet.before[4]>>

\* the places of `before` within radiusKm of (lat, lng)
Near(before, lat, lng, radiusKm) ==
    {i \in 1..Len(before) :
        calculateDistance(lat, lng, before[i].latitude, before[i].longitude)
            <= radiusKm * 1000}

\* the j-th smallest member of a set of places
NthOf(places, j) ==
    CHOOSE i \in places : Cardinality({h \in places : h < i}) = j - 1

\* C10: getDisasterReportsByLocation(lat, lng, radiusKm, limit) returns the
\* first `limit` of the stored reports within radiusKm of (lat, lng), in
\* stored order; with radiusKm = 0 every report returned is at distance 0.
C10_Nearby ==
    lastRet.op = "getDisasterReportsByLocation" =>
      LET lat      == lastRet.arg[1]
          lng      == lastRet.arg[2]
          radiusKm == lastRet.arg[3]
          limit    == lastRet.arg[4]
          near     == Near(lastRet.before, lat, lng, radiusKm)
          k        == Min(limit, Cardinality(near))
      IN /\ Len(lastRet.value) = k
         /\ \A j \in 1..k : lastRet.value[j] = lastRet.before[NthOf(near, j)]
         /\ radiusKm = 0 =>
               \A j \in 1..k :
                  calculateDistance(lat, lng, lastRet.value[j].latitude,
                                    lastRet.value[j].longitude) = 0

\* radius 0 and limit 1 where two stored reports are at the query point and
\* others are not: the first of the two alone
C10_Witness ==
    /\ lastRet.op = "getDisasterReportsByLocation"
    /\ lastRet.arg[3] = 0
    /\ lastRet.arg[4] = 1
    /\ Cardinality(Near(lastRet.before, lastRet.arg[1], lastRet.arg[2], 0)) = 2
    /\ Len(lastRet.value) = 1
    /\ lastRet.value[1] = lastRet.before[1]

----------------------------------------------------------------------------
\* Properties of the danger zones (ZoneSpec)

\* C11: getDangerZones returns no zone whose is_active is false.
C11_OnlyActive ==
    lastRet.op = "getDangerZones" =>
        \A i \in 1..Len(lastRet.value) : lastRet.value[i].is_active

\* C12: checkLocationInDangerZone returns no zone whose is_active is false,
\* and when it returns a zone, some active stored zone is near the place
\* asked.
C12_InactiveExcluded ==
    lastRet.op = "checkLocationInDangerZone" =>
        /\ \A i \in 1..Len(lastRet.value) : lastRet.value[i].is_active
        /\ lastRet.value # << >> =>
              \E i \in 1..Len(zones) :
                  /\ zones[i].is_active
                  /\ nearZone(zones[i], lastRet.arg[1], lastRet.arg[2])

\* C13: checkLocationInDangerZone(lat, lng) returns every active stored
\* zone whose vertex-average centre is less than 5 km from (lat, lng).
C13_AllMatches ==
    lastRet.op = "checkLocationInDangerZone" =>
        \A i \in 1..Len(zones) :
            (zones[i].is_active
                /\ nearZone(zones[i], lastRet.arg[1], lastRet.arg[2])) =>
              \E j \in 1..Len(lastRet.value) : lastRet.value[j] = zones[i]

----------------------------------------------------------------------------
\* The verification stub on its own

\* the service constructed with or without ETHEREUM_RPC_URL and PRIVATE_KEY
VerifyInit ==
    /\ now = Clock0
    /\ session = NoSession
    /\ profile = DEMO_USER
    /\ disasters = MOCK_DISASTER_REPORTS
    /\ zones = MOCK_DANGER_ZONES
    /\ failing = {}
    /\ corrupt = {}
    /\ calls = [c \in Calls |-> Idle]
    /\ lastRet = NoRet
    /\ returned = << >>
    /\ openaiClient = [apiKey |-> NoKey, isTestMode |-> FALSE]
    /\ isEnabled \in BOOLEAN
    /\ verifications = << >>
    /\ authContext = AuthContext0
    /\ disasterContext = DisasterContext0

VerifyNext ==
    \/ Tick
    \/ \E reportId \in RecordIds, reportData \in Payloads :
          GetMockVerification(reportId, reportData)
    \/ \E reportId \in RecordIds, reportData \in Payloads :
          VerifyDisasterReportHash(reportId, reportData)
    \/ \E i \in 1..MaxVerifications : VerifyDisasterReportReturn(i)
    \/ \E incidentId \in RecordIds, data \in Payloads :
          VerifyIncident(incidentId, data)

VerifySpec == VerifyInit /\ [][VerifyNext]_vars

\* two verifications by the same function with the same id and payload,
\* both returned
SameInputs(i, j) ==
    /\ i < j
    /\ verifications[i].done /\ verifications[j].done
    /\ verifications[i].stub = verifications[j].stub
    /\ verifications[i].id = verifications[j].id
    /\ verifications[i].data = verifications[j].data

\* C23 as amended: two verify calls with the same recordId and payload
\* yield the same hash when they read the same clock value, and different
\* hashes when they read different clock values.
C23_HashFollowsClock ==
    \A i, j \in 1..Len(verifications) :
        SameInputs(i, j) =>
            (verifications[i].hash = verifications[j].hash
                <=> verifications[i].at = verifications[j].at)

\* two calls with the same inputs within one millisecond: the same hash
C23_Witness ==
    \E i, j \in 1..Len(verifications) :
        /\ SameInputs(i, j)
        /\ verifications[i].stub = "mock"
        /\ verifications[i].at = verifications[j].at
        /\ verifications[i].hash = verifications[j].hash

\* C23 as claimed: any two verify calls with the same recordId and payload
\* yield different hashes.
C23_NeverSameHash ==
    \A i, j \in 1..Len(verifications) :
        SameInputs(i, j) => verifications[i].hash # verifications[j].hash

----------------------------------------------------------------------------
\* The OpenAIClient on its own

ClientInit ==
    /\ now = Clock0
    /\ session = NoSession
    /\ profile = DEMO_USER
    /\ disasters = MOCK_DISASTER_REPORTS
    /\ zones = MOCK_DANGER_ZONES
    /\ failing = {}
    /\ corrupt = {}
    /\ calls = [c \in Calls |-> Idle]
    /\ lastRet = NoRet
    /\ returned = << >>
    /\ openaiClient \in OpenAIClients
    /\ isEnabled = FALSE
    /\ verifications = << >>
    /\ authContext = AuthContext0
    /\ disasterContext = DisasterContext0

ClientNext ==
    \/ Tick
    \/ \E query \in Queries, outcome \in ApiOutcomes :
          GenerateSafetyAdvice(query, outcome)
    \/ \E emergencyType \in EmergencyTypes, outcome \in ApiOutcomes :
          GenerateEmergencyMessage(emergencyType, outcome)
    \/ \E outcome \in ApiOutcomes : AssessRouteSafety(outcome)

ClientSpec == ClientInit /\ [][ClientNext]_vars

\* the last call was one of the three methods of the client
ClientCalled ==
    lastRet.op \in {"generateSafetyAdvice", "generateEmergencyMessage",
                    "assessRouteSafety"}

\* C24: the three methods return a response and never throw; in test mode
\* or without a key the response is a fallback and no request is issued;
\* when the request fails the response is a fallback; fallback is false
\* only when a request was issued and succeeded.
C24_FallbackOnFailure ==
    ClientCalled =>
        /\ lastRet.kind = "response"
        /\ (openaiClient.isTestMode \/ openaiClient.apiKey = NoKey) =>
              /\ lastRet.value.response.fallback
              /\ lastRet.value.fetches = 0
        /\ lastRet.value.outcome \in {"network_error", "not_ok"} =>
              lastRet.value.response.fallback
        /\ ~lastRet.value.response.fallback =>
              /\ lastRet.value.fetches = 1
              /\ lastRet.value.outcome \in {"no_content", "content"}

\* a client with a key, not in test mode, whose request met a status that
\* is not OK: the fallback, after one request
C24_Witness ==
    /\ ClientCalled
    /\ openaiClient.apiKey # NoKey /\ ~openaiClient.isTestMode
    /\ lastRet.value.outcome = "not_ok"
    /\ lastRet.value.fetches = 1
    /\ lastRet.value.response.fallback

----------------------------------------------------------------------------
\* calculateDistance on its own

DistanceNext ==
    \E pair \in DistancePairs : CalculateDistance(pair[1], pair[2])

DistanceSpec == Init /\ [][DistanceNext]_vars

----------------------------------------------------------------------------
\* Properties of the profile (ProfileSpec)

\* the profile and the session signUp writes, from what it returned
SignedUpProfile ==
    [id |-> lastRet.value.id, username |-> lastRet.arg[1], full_name |-> NoName,
     created_at |-> lastRet.value.created_at, updated_at |-> NoTime]

\* C17: updateProfile called while no session is stored throws 'No
\* authenticated user' and leaves the stored profile as it was.
C17_UpdateNeedsSession ==
    (lastRet.op = "updateProfile" /\ lastRet.user = NoSession) =>
        /\ lastRet.kind = "error"
        /\ lastRet.value = "No authenticated user"
        /\ profile = lastRet.profileBefore

----------------------------------------------------------------------------
\* Properties of the writes (FaultSpec)

\* C15: when signUp, updateProfile, reportDisaster or verifyDisasterReport
\* has ended, the stored profile, session and reports are all as before the
\* operation or all as after it, and an operation that reported success has
\* its writes applied: after signUp the profile and the session are both
\* the new user's, after updateProfile the profile is the one returned,
\* after reportDisaster the list is the report followed by the list before,
\* after verifyDisasterReport the report returned is in the list.
C15_AllOrNothing ==
    /\ (lastRet.op = "signUp" /\ lastRet.kind = "ok") =>
          /\ profile = SignedUpProfile
          /\ session = lastRet.value.id
    /\ (lastRet.op = "updateProfile" /\ lastRet.kind = "profile") =>
          profile = lastRet.value
    /\ (lastRet.op = "reportDisaster" /\ lastRet.kind = "report") =>
          disasters = <<lastRet.value>> \o lastRet.before
    /\ (lastRet.op = "verifyDisasterReport" /\ lastRet.kind = "report") =>
          \E i \in 1..Len(disasters) : disasters[i] = lastRet.value

----------------------------------------------------------------------------
\* Properties of the reads (MalformedSpec)

\* C16: a read operation throws nothing, and when the text under its key
\* does not parse (or the key is absent) it returns what it returns for the
\* default: getDisasterReports and getDisasterReportsByLocation the empty
\* list, verifyDisasterReport undefined with the storage left as it was,
\* getDangerZones the empty list, getCurrentUser null; a key that parses is
\* read as stored.  (None of these operations changes which keys parse, so
\* `corrupt` is as it was when the operation read.)
C16_ReadDefault ==
    /\ lastRet.op \in {"getDisasterReports", "getDisasterReportsByLocation",
                       "verifyDisasterReport", "getDangerZones",
                       "getCurrentUser"} => lastRet.kind # "error"
    /\ (lastRet.op \in {"getDisasterReports", "getDisasterReportsByLocation"}
          /\ STORAGE_KEYS.DISASTERS \in corrupt) => lastRet.value = << >>
    /\ (lastRet.op = "verifyDisasterReport"
          /\ STORAGE_KEYS.DISASTERS \in corrupt) =>
            /\ lastRet.kind = "undefined"
            /\ disasters = lastRet.before
    /\ lastRet.op = "getDangerZones" =>
          lastRet.value =
              (IF STORAGE_KEYS.DANGER_ZONES \in corrupt THEN << >> ELSE zones)
    /\ lastRet.op = "getCurrentUser" =>
          lastRet.value =
              (IF STORAGE_KEYS.SESSION \in corrupt THEN NoSession ELSE session)

\* the stored reports were asked for while the text under resq_disasters
\* did not parse, with a session stored whose text did not parse either
C16_Witness ==
    /\ lastRet.op = "getDisasterReports"
    /\ lastRet.arg = <<50, 0>>
    /\ {STORAGE_KEYS.DISASTERS, STORAGE_KEYS.SESSION} \subseteq corrupt
    /\ disasters # << >>
    /\ session # NoSession
    /\ lastRet.value = << >>

----------------------------------------------------------------------------
\* Properties of the hazard summary (HazardSpec)

\* the numbers 0 and 0.3
Zero == Num(0)
ThreeTenths == Literal(3, 10)

\* C19: generateHazardSummary on the empty list gives riskLevel 'low' and
\* an overallRisk that is the number 0.
C19_EmptyGuard ==
    (lastRet.op = "generateHazardSummary" /\ lastRet.arg = << >>) =>
        /\ lastRet.value.riskLevel = "low"
        /\ lastRet.value.analysis.overallRisk = Zero

\* the summary was made of one report, of severity 'critical' and created
\* less than a day before the call
OneRecentCritical ==
    /\ lastRet.op = "generateHazardSummary"
    /\ Len(lastRet.arg) = 1
    /\ lastRet.arg[1].severity = "critical"
    /\ lastRet.arg[1].created_at > lastRet.at - Day

\* C20 as amended: for one recent critical report overallRisk is the
\* number 0.3, which is not greater than 0.3: riskLevel is 'low'.
C20_BoundaryLow ==
    OneRecentCritical =>
        /\ lastRet.value.analysis.overallRisk = ThreeTenths
        /\ lastRet.value.riskLevel = "low"

\* one critical report created a day less one unit before the call
C20_Witness ==
    /\ OneRecentCritical
    /\ lastRet.arg[1].created_at = lastRet.at - Day + 1
    /\ lastRet.value.analysis.recentReports = 1
    /\ lastRet.value.analysis.criticalReports = 1
    /\ lastRet.value.riskLevel = "low"

\* C20 as claimed: for one recent critical report overallRisk is 0.3 and
\* riskLevel is 'medium'.
C20_BoundaryMedium ==
    OneRecentCritical =>
        /\ lastRet.value.analysis.overallRisk = ThreeTenths
        /\ lastRet.value.riskLevel = "medium"

\* the formula of the reference, in JavaScript numbers:
\* clamp01(0.5 * min(recent / 10, 1)
\*         + 0.5 * ((0.5 * critical + 0.3 * high) / total))
referenceRisk(total, recent, critical, high) ==
    LET half == Literal(5, 10)
        weightedSeverity ==
            NumAdd(NumMul(half, Num(critical)),
                   NumMul(Literal(3, 10), Num(high)))
        x == NumAdd(NumMul(half, MathMin(NumDiv(Num(recent), 10), Num(1))),
                    NumMul(half, NumDiv(weightedSeverity, total)))
    IN IF NumGt(x, Num(1)) THEN Num(1) ELSE x

\* the level of the reference: strict comparisons with 0.7, 0.5 and 0.3
referenceLevel(risk) ==
    IF NumGt(risk, Literal(7, 10)) THEN "critical"
    ELSE IF NumGt(risk, Literal(5, 10)) THEN "high"
    ELSE IF NumGt(risk, Literal(3, 10)) THEN "medium"
    ELSE "low"

\* the counts of a list at time t: all, recent, critical and high reports
countsOf(list, t) ==
    <<Len(list),
      Cardinality({i \in 1..Len(list) : list[i].created_at > t - Day}),
      Cardinality({i \in 1..Len(list) : list[i].severity = "critical"}),
      Cardinality({i \in 1..Len(list) : list[i].severity = "high"})>>

\* the reference over the counts of non-empty lists, computed once
referenceTable ==
    [u \in {v \in (1..MaxLongReports) \X (0..MaxLongReports)
                    \X (0..MaxLongReports) \X (0..MaxLongReports) :
                v[2] <= v[1] /\ v[3] + v[4] <= v[1]}
        |-> LET risk == referenceRisk(u[1], u[2], u[3], u[4])
            IN [overallRisk |-> risk, riskLevel |-> referenceLevel(risk)]]
        @@ << >>

C22_Deterministic ==
    [][(/\ lastRet.op = "generateHazardSummary"
        /\ lastRet'.op = "generateHazardSummary"
        /\ lastRet'.arg = lastRet.arg)
         => /\ lastRet'.value.riskLevel = lastRet.value.riskLevel
            /\ lastRet'.value.recommendations = lastRet.value.recommendations]_vars

\* C26: every zone checkLocationInDangerZone(lat, lng) returns has its own
\* centre less than 5 km from (lat, lng).
C26_ReturnedIsMatch ==
    lastRet.op = "checkLocationInDangerZone" =>
        \A j \in 1..Len(lastRet.value) :
            nearZone(lastRet.value[j], lastRet.arg[1], lastRet.arg[2])

\* C27: whenever a session is stored, the id of its user is the id of the
\* stored profile.
C27_SessionNamesProfile ==
    getCurrentUser(session) # NoSession =>
        getCurrentUser(session) = storedProfile(profile).id

----------------------------------------------------------------------------
\* AuthProvider (contexts/AuthContext.tsx).  Its auth service keeps the
\* persisted session (session) and the profile row (profile).

\* loadProfile: getCurrentProfile() finds no user and returns null, or finds
\* the user's row, or finds no row and throws, which loadProfile catches
loadProfile(contextProfile, sess, stored) ==
    LET user == getCurrentUser(sess)
        row == storedProfile(stored)
    IN IF ~authenticated(user) THEN NoProfile
       ELSE IF row.id = user THEN row
       ELSE contextProfile

\* useRequireAuth
useRequireAuth ==
    IF authContext.loading
    THEN [isAuthenticated |-> FALSE, loading |-> TRUE]
    ELSE [isAuthenticated |-> authContext.user # NoSession, loading |-> FALSE]

\* the effect of the provider: auth.getCurrentUser() is called and the
\* interval of checkAuthState is set
AuthMount ==
    /\ ~authContext.mounted
    /\ authContext' = [authContext EXCEPT
                          !.mounted = TRUE,
                          !.check = [user |-> getCurrentUser(session),
                                     initial |-> TRUE, active |-> TRUE]]
    /\ UNCHANGED <<now, session, profile, disasters, zones, failing, corrupt,
                   calls, lastRet, returned, openaiClient, isEnabled,
                   verifications, disasterContext>>

\* the interval fires: checkAuthState calls auth.getCurrentUser()
CheckAuthState ==
    /\ authContext.mounted
    /\ ~authContext.check.active
    /\ authContext' = [authContext EXCEPT
                          !.check = [user |-> getCurrentUser(session),
                                     initial |-> FALSE, active |-> TRUE]]
    /\ UNCHANGED <<now, session, profile, disasters, zones, failing, corrupt,
                   calls, lastRet, returned, openaiClient, isEnabled,
                   verifications, disasterContext>>

\* the user has arrived, in the effect's then() or in checkAuthState:
\* setUser, setSession and loadProfile for a user; setLoading(false) for
\* none, after setProfile(null) in checkAuthState.  Nothing sets the user or
\* the session of the context back to null.
CheckAuthStateUser ==
    /\ authContext.check.active
    /\ LET user == authContext.check.user
       IN authContext' =
            IF authenticated(user)
            THEN [authContext EXCEPT
                    !.user = user, !.session = user,
                    !.profile = loadProfile(authContext.profile, session,
                                            profile),
                    !.loading = FALSE, !.check = NoCheck]
            ELSE IF authContext.check.initial
            THEN [authContext EXCEPT !.loading = FALSE, !.check = NoCheck]
            ELSE [authContext EXCEPT !.profile = NoProfile,
                                     !.loading = FALSE, !.check = NoCheck]
    /\ UNCHANGED <<now, session, profile, disasters, zones, failing, corrupt,
                   calls, lastRet, returned, openaiClient, isEnabled,
                   verifications, disasterContext>>

\* signIn, signUp or signOut of the context up to its await:
\* setLoading(true)
AuthCall(call) ==
    /\ call \notin authContext.pending
    /\ authContext' = [authContext EXCEPT
                          !.loading = TRUE,
                          !.pending = authContext.pending \cup {call}]
    /\ UNCHANGED <<now, session, profile, disasters, zones, failing, corrupt,
                   calls, lastRet, returned, openaiClient, isEnabled,
                   verifications, disasterContext>>

\* auth.signIn has returned or thrown: the catch block does
\* setLoading(false); on success loading is left for checkAuthState
AuthSignIn(ok) ==
    /\ <<"signIn">> \in authContext.pending
    /\ IF ok
       THEN /\ session' = DemoUserId
            /\ authContext' = [authContext EXCEPT
                                  !.pending = authContext.pending
                                                \ {<<"signIn">>}]
            /\ lastRet' = Ret("AuthContext.signIn", << >>, "ok", DemoUserId,
                              NoSession)
       ELSE /\ session' = session
            /\ authContext' = [authContext EXCEPT
                                  !.loading = FALSE,
                                  !.pending = authContext.pending
                                                \ {<<"signIn">>}]
            /\ lastRet' = Ret("AuthContext.signIn", << >>, "error",
                              <<"sign in failed">>, NoSession)
    /\ UNCHANGED <<now, profile, disasters, zones, failing, corrupt, calls,
                   returned, openaiClient, isEnabled, verifications,
                   disasterContext>>

\* auth.signUp has returned or thrown
AuthSignUp(username, ok) ==
    /\ <<"signUp", username>> \in authContext.pending
    /\ IF ok
       THEN /\ session' = newUserId(now)
            /\ profile' = newProfile(now, username, now)
            /\ authContext' = [authContext EXCEPT
                                  !.pending = authContext.pending
                                                \ {<<"signUp", username>>}]
            /\ lastRet' = Ret("AuthContext.signUp", <<username>>, "ok",
                              newUserId(now), NoSession)
       ELSE /\ UNCHANGED <<session, profile>>
            /\ authContext' = [authContext EXCEPT
                                  !.loading = FALSE,
                                  !.pending = authContext.pending
                                                \ {<<"signUp", username>>}]
            /\ lastRet' = Ret("AuthContext.signUp", <<username>>, "error",
                              <<"sign up failed">>, NoSession)
    /\ UNCHANGED <<now, disasters, zones, failing, corrupt, calls, returned,
                   openaiClient, isEnabled, verifications, disasterContext>>

\* auth.signOut has returned or thrown: setProfile(null) on success,
\* setLoading(false) in the finally block
AuthSignOut(ok) ==
    /\ <<"signOut">> \in authContext.pending
    /\ IF ok
       THEN /\ session' = NoSession
            /\ authContext' = [authContext EXCEPT
                                  !.profile = NoProfile,
                                  !.loading = FALSE,
                                  !.pending = authContext.pending
                                                \ {<<"signOut">>}]
            /\ lastRet' = Ret("AuthContext.signOut", << >>, "ok", << >>,
                              NoSession)
       ELSE /\ session' = session
            /\ authContext' = [authContext EXCEPT
                                  !.loading = FALSE,
                                  !.pending = authContext.pending
                                                \ {<<"signOut">>}]
            /\ lastRet' = Ret("AuthContext.signOut", << >>, "error",
                              <<"sign out failed">>, NoSession)
    /\ UNCHANGED <<now, profile, disasters, zones, failing, corrupt, calls,
                   returned, openaiClient, isEnabled, verifications,
                   disasterContext>>

\* the calls the components make
AuthCalls ==
    {<<"signIn">>, <<"signOut">>} \cup {<<"signUp", u>> : u \in Usernames}

\* the app starts with or without a persisted session
AuthInit ==
    /\ now = Clock0
    /\ session \in {NoSession, DemoUserId}
    /\ profile = DEMO_USER
    /\ disasters = MOCK_DISASTER_REPORTS
    /\ zones = MOCK_DANGER_ZONES
    /\ failing = {}
    /\ corrupt = {}
    /\ calls = [c \in Calls |-> Idle]
    /\ lastRet = NoRet
    /\ returned = << >>
    /\ ServicesInit

AuthNext ==
    \/ AuthMount
    \/ CheckAuthState
    \/ CheckAuthStateUser
    \/ \E call \in AuthCalls : AuthCall(call)
    \/ \E ok \in BOOLEAN : AuthSignIn(ok)
    \/ \E username \in Usernames, ok \in BOOLEAN : AuthSignUp(username, ok)
    \/ \E ok \in BOOLEAN : AuthSignOut(ok)

AuthSpec == AuthInit /\ [][AuthNext]_vars

\* the effect runs after the first render, the interval keeps firing, and
\* every call of the auth service returns or throws
AuthFairSpec ==
    /\ AuthSpec
    /\ WF_vars(AuthMount)
    /\ WF_vars(CheckAuthState)
    /\ WF_vars(CheckAuthStateUser)
    /\ WF_vars(\E ok \in BOOLEAN : AuthSignIn(ok))
    /\ WF_vars(\E username \in Usernames, ok \in BOOLEAN :
                  AuthSignUp(username, ok))
    /\ WF_vars(\E ok \in BOOLEAN : AuthSignOut(ok))

\* the context shows a signed-in user
ContextSignedIn ==
    /\ authContext.user # NoSession
    /\ authContext.session # NoSession
    /\ ~authContext.loading

\* the context shows no user
ContextSignedOut ==
    /\ authContext.user = NoSession
    /\ authContext.session = NoSession
    /\ ~useRequireAuth.isAuthenticated

\* once a signIn or signUp of the context has completed, the context
\* comes to show a signed-in user, unless the session is removed first
SignInReflected ==
    (/\ lastRet.op \in {"AuthContext.signIn", "AuthContext.signUp"}
     /\ lastRet.kind = "ok")
        ~> (ContextSignedIn \/ session = NoSession)

\* once a signOut of the context has completed, the context comes to show
\* no user, unless a session is stored again first
SignOutReflected ==
    (lastRet.op = "AuthContext.signOut" /\ lastRet.kind = "ok")
        ~> (ContextSignedOut \/ session # NoSession)

\* C28: the context eventually reflects the persisted session: after a
\* completed signIn or signUp its user and session become non-null and
\* loading false; after a completed signOut its user and session become
\* null and useRequireAuth reports isAuthenticated = false.
C28_ContextFollowsSession == SignInReflected /\ SignOutReflected

----------------------------------------------------------------------------
\* DisasterProvider (contexts/DisasterContext.tsx), over the disaster and
\* danger-zone services

\* the positions the location watcher reports: one within 5 km of a
\* danger zone, one within 5 km of none
ContextLocations == { <<261445, 917362>>, <<261000, 917000>> }

\* a list without its i-th element
without(list, i) == SubSeq(list, 1, i - 1) \o SubSeq(list, i + 1, Len(list))

\* the reportDisaster calls of the context in flight
ContextReports ==
    {i \in 1..Len(disasterContext.inFlight) :
        disasterContext.inFlight[i].op = "reportDisaster"}

\* setCurrentLocation(location), from getCurrentPositionAsync or from the
\* callback of watchPositionAsync
SetCurrentLocation(location) ==
    /\ disasterContext.currentLocation # location
    /\ disasterContext' = [disasterContext EXCEPT
                              !.currentLocation = location]
    /\ UNCHANGED <<now, session, profile, disasters, zones, failing, corrupt,
                   calls, lastRet, returned, openaiClient, isEnabled,
                   verifications, authContext>>

\* checkLocationSafety, called by the [currentLocation] effect or by a
\* component: the service has no timer, so one step.  isInDangerZone in
\* `return !isInDangerZone` is the state of the render the function was
\* made in, the value before the setIsInDangerZone of this call.
CheckLocationSafety ==
    /\ LET location == disasterContext.currentLocation
       IN IF location = NoLocation
          THEN /\ lastRet' = Ret("checkLocationSafety", NoLocation, "boolean",
                                 FALSE, NoSession)
               /\ UNCHANGED disasterContext
          ELSE LET dangerZoneData ==
                       zonesAtLocation(storedZones(zones),
                                       location[1], location[2])
               IN /\ disasterContext' =
                        IF Len(dangerZoneData) > 0
                        THEN [disasterContext EXCEPT
                                !.isInDangerZone = TRUE,
                                !.dangerZoneAlert = dangerZoneData[1]]
                        ELSE [disasterContext EXCEPT
                                !.isInDangerZone = FALSE,
                                !.dangerZoneAlert = NoZone]
                  /\ lastRet' = Ret("checkLocationSafety", location,
                                    "boolean",
                                    ~disasterContext.isInDangerZone,
                                    NoSession)
    /\ UNCHANGED <<now, session, profile, disasters, zones, failing, corrupt,
                   calls, returned, openaiClient, isEnabled, verifications,
                   authContext>>

\* reportDisaster of the context up to its await: `if (!user) throw`, then
\* setLoading(true), setError(null)
ContextReportDisaster(report) ==
    /\ Len(disasterContext.inFlight) < MaxCalls
    /\ Len(returned) + Cardinality(ContextReports) < MaxReports
    /\ IF authContext.user = NoSession
       THEN /\ lastRet' = Ret("DisasterContext.reportDisaster", report,
                              "error",
                              "Authentication required to report disasters",
                              NoSession)
            /\ UNCHANGED disasterContext
       ELSE /\ disasterContext' =
                  [disasterContext EXCEPT
                     !.loading = TRUE, !.error = NoError,
                     !.inFlight = Append(disasterContext.inFlight,
                                         [op |-> "reportDisaster",
                                          arg |-> report])]
            /\ UNCHANGED lastRet
    /\ UNCHANGED <<now, session, profile, disasters, zones, failing, corrupt,
                   calls, returned, openaiClient, isEnabled, verifications,
                   authContext>>

\* disasters.reportDisaster has returned or thrown: the report is put in
\* front of the list of the context, or the error is set and thrown on;
\* finally setLoading(false)
ContextReportDisasterReturn(i) ==
    /\ i \in ContextReports
    /\ LET report == disasterContext.inFlight[i].arg
           user == getCurrentUser(session)
           r == newReport(now, user, now, report)
       IN IF authenticated(user)
          THEN /\ disasters' = setToStorage(STORAGE_KEYS.DISASTERS, disasters,
                                   unshift(storedDisasters(disasters), r))
               /\ corrupt' = corrupt \ written(STORAGE_KEYS.DISASTERS)
               /\ returned' = Append(returned,
                                     [report |-> r, overlap |-> FALSE])
               /\ disasterContext' =
                     [disasterContext EXCEPT
                        !.disasterReports =
                            unshift(disasterContext.disasterReports, r),
                        !.loading = FALSE,
                        !.inFlight = without(disasterContext.inFlight, i)]
               /\ lastRet' = Ret("DisasterContext.reportDisaster", report,
                                 "ok", r.id, user)
          ELSE /\ UNCHANGED <<disasters, corrupt, returned>>
               /\ disasterContext' =
                     [disasterContext EXCEPT
                        !.error = "Failed to report disaster",
                        !.loading = FALSE,
                        !.inFlight = without(disasterContext.inFlight, i)]
               /\ lastRet' = Ret("DisasterContext.reportDisaster", report,
                                 "error", "Authentication required", user)
    /\ UNCHANGED <<now, session, profile, zones, failing, calls,
                   openaiClient, isEnabled, verifications, authContext>>

\* refreshDisasterReports or refreshDangerZones up to its await:
\* setLoading(true), setError(null)
Refresh(op) ==
    /\ Len(disasterContext.inFlight) < MaxCalls
    /\ disasterContext' =
          [disasterContext EXCEPT
             !.loading = TRUE, !.error = NoError,
             !.inFlight = Append(disasterContext.inFlight,
                                 [op |-> op, arg |-> << >>])]
    /\ UNCHANGED <<now, session, profile, disasters, zones, failing, corrupt,
                   calls, lastRet, returned, openaiClient, isEnabled,
                   verifications, authContext>>

\* disasters.getDisasterReports() has returned: setDisasterReports(reports),
\* finally setLoading(false)
RefreshDisasterReportsReturn(i) ==
    /\ i \in 1..Len(disasterContext.inFlight)
    /\ disasterContext.inFlight[i].op = "refreshDisasterReports"
    /\ disasterContext' =
          [disasterContext EXCEPT
             !.disasterReports = pageOfDisasters(storedDisasters(disasters),
                                                 50, 0),
             !.loading = FALSE,
             !.inFlight = without(disasterContext.inFlight, i)]
    /\ UNCHANGED <<now, session, profile, disasters, zones, failing, corrupt,
                   calls, lastRet, returned, openaiClient, isEnabled,
                   verifications, authContext>>

\* dangerZones.getDangerZones() has returned: setDangerZones(zones),
\* finally setLoading(false)
RefreshDangerZonesReturn(i) ==
    /\ i \in 1..Len(disasterContext.inFlight)
    /\ disasterContext.inFlight[i].op = "refreshDangerZones"
    /\ disasterContext' =
          [disasterContext EXCEPT
             !.dangerZones = storedZones(zones),
             !.loading = FALSE,
             !.inFlight = without(disasterContext.inFlight, i)]
    /\ UNCHANGED <<now, session, profile, disasters, zones, failing, corrupt,
                   calls, lastRet, returned, openaiClient, isEnabled,
                   verifications, authContext>>

\* the [user] effect, run when the user of the AuthContext has changed:
\* for a user, refreshDisasterReports() and refreshDangerZones() are both
\* called, neither awaited
LoadInitialData ==
    /\ authContext.user # disasterContext.effectUser
    /\ Len(disasterContext.inFlight) + 2 <= MaxCalls
    /\ disasterContext' =
          IF authContext.user = NoSession
          THEN [disasterContext EXCEPT !.effectUser = authContext.user]
          ELSE [disasterContext EXCEPT
                  !.effectUser = authContext.user,
                  !.loading = TRUE, !.error = NoError,
                  !.inFlight = disasterContext.inFlight \o
                      << [op |-> "refreshDisasterReports", arg |-> << >>],
                         [op |-> "refreshDangerZones", arg |-> << >>] >>]
    /\ UNCHANGED <<now, session, profile, disasters, zones, failing, corrupt,
                   calls, lastRet, returned, openaiClient, isEnabled,
                   verifications, authContext>>

\* a session is persisted when the app starts
DisasterInit ==
    /\ now = Clock0
    /\ session = DemoUserId
    /\ profile = DEMO_USER
    /\ disasters = MOCK_DISASTER_REPORTS
    /\ zones = MOCK_DANGER_ZONES
    /\ failing = {}
    /\ corrupt = {}
    /\ calls = [c \in Calls |-> Idle]
    /\ lastRet = NoRet
    /\ returned = << >>
    /\ ServicesInit

\* the AuthProvider finds the user once and a component may sign out; the
\* components report one kind of disaster
DisasterNext ==
    \/ AuthMount
    \/ CheckAuthStateUser
    \/ AuthCall(<<"signOut">>)
    \/ AuthSignOut(TRUE)
    \/ LoadInitialData
    \/ \E op \in {"refreshDisasterReports", "refreshDangerZones"} : Refresh(op)
    \/ \E i \in 1..MaxCalls : RefreshDisasterReportsReturn(i)
    \/ \E i \in 1..MaxCalls : RefreshDangerZonesReturn(i)
    \/ \E report \in PartialReports :
          /\ report.status = "open"
          /\ ContextReportDisaster(report)
    \/ \E i \in 1..MaxCalls : ContextReportDisasterReturn(i)
    \/ \E location \in ContextLocations : SetCurrentLocation(location)
    \/ CheckLocationSafety

DisasterSpec == DisasterInit /\ [][DisasterNext]_vars

\* C29: loading is true in every state in which a reportDisaster, a
\* refreshDisasterReports or a refreshDangerZones of the context is still
\* in flight.
C29_LoadingWhileInFlight ==
    disasterContext.inFlight # << >> => disasterContext.loading

\* C30: a checkLocationSafety call made with a location returns false
\* exactly when the check it has just made found the location in a danger
\* zone, whatever isInDangerZone was before the call.
C30_ReturnsThisCheck ==
    (lastRet.op = "checkLocationSafety" /\ lastRet.arg # NoLocation)
        => (lastRet.value =
              (zonesAtLocation(storedZones(zones),
                               lastRet.arg[1], lastRet.arg[2]) = << >>))

====
